---- MODULE Spec2Model ----
(***************************************************************************)
(* Model of the Aegis task-manager backend (Express + Mongoose): the       *)
(* validation gate, the authorization gate, the auth controller, the task  *)
(* controller, the token helpers and the error handler.                    *)
(*                                                                         *)
(* Strings are sequences of one-character strings so that trim,            *)
(* toLowerCase, normalizeEmail, the regular expressions of the validators  *)
(* and startsWith/split are computed, not assumed.                         *)
(***************************************************************************)
EXTENDS Integers, Sequences, FiniteSets, TLC

(***************************************************************************)
(* Bounds of the model.                                                    *)
(***************************************************************************)
MaxUsers == 2
MaxTasks == 1
MaxTime == 3

(***************************************************************************)
(* Program constants.                                                      *)
(***************************************************************************)
OK == 200
CREATED == 201
BAD_REQUEST == 400
UNAUTHORIZED == 401
FORBIDDEN == 403
NOT_FOUND == 404
CONFLICT == 409
UNPROCESSABLE_ENTITY == 422
INTERNAL_SERVER_ERROR == 500
PASSWORD_MIN_LENGTH == 8
USERNAME_MIN_LENGTH == 3
USERNAME_MAX_LENGTH == 30
TITLE_MAX_LENGTH == 200
DESCRIPTION_MAX_LENGTH == 2000
SEARCH_MAX_LENGTH == 100
LIMIT_MAX == 100
DUPLICATE_KEY == 11000

TASK_STATUS == {"todo", "in-progress", "completed"}

\* process.env.JWT_SECRET, and the key of a token signed by somebody else
JWT_SECRET == "server-secret"
FOREIGN_SECRET == "other-secret"
\* process.env.JWT_EXPIRES_IN in seconds (the default is '7d'): a short
\* lifetime, so that tokens expire within the time the model covers
JWT_EXPIRES_IN == 2

(***************************************************************************)
(* Characters and strings.                                                 *)
(***************************************************************************)
UpperChars == {"A", "B", "C", "D", "E", "F", "Z"}
LowerChars == {"a", "b", "c", "d", "e", "f", "g", "i", "l", "m", "o", "p",
               "r", "s", "t", "u", "v", "w", "x", "y", "z"}
DigitChars == {"0", "1", "2", "9"}
\* the character class of signupValidation: !@#$%^&*(),.?":{}|<>
SpecialChars == {"!", "@", "#", "$", "%", "^", "&", "*", "(", ")", ",", ".",
                 "?", "\"", ":", "{", "}", "|", "<", ">"}

\* String.prototype.toLowerCase on one character
lowerChar(c) ==
  CASE c = "A" -> "a" [] c = "B" -> "b" [] c = "C" -> "c" [] c = "D" -> "d"
    [] c = "E" -> "e" [] c = "F" -> "f" [] c = "Z" -> "z" [] OTHER -> c

toLowerCase(s) == [i \in 1..Len(s) |-> lowerChar(s[i])]

RECURSIVE trimStart(_)
trimStart(s) == IF s # <<>> /\ Head(s) = " " THEN trimStart(Tail(s)) ELSE s

RECURSIVE trimEnd(_)
trimEnd(s) ==
  IF s # <<>> /\ s[Len(s)] = " " THEN trimEnd(SubSeq(s, 1, Len(s) - 1)) ELSE s

trim(s) == trimEnd(trimStart(s))

RECURSIVE removeChar(_, _)
removeChar(s, c) ==
  IF s = <<>> THEN <<>>
  ELSE IF Head(s) = c THEN removeChar(Tail(s), c)
       ELSE <<Head(s)>> \o removeChar(Tail(s), c)

hasChar(s, cs) == \E i \in 1..Len(s) : s[i] \in cs
allChars(s, cs) == \A i \in 1..Len(s) : s[i] \in cs

\* positions of '@' in s
atPositions(s) == {i \in 1..Len(s) : s[i] = "@"}
lastAt(s) == CHOOSE i \in atPositions(s) : \A j \in atPositions(s) : j <= i
localPart(s) == SubSeq(s, 1, lastAt(s) - 1)
domainPart(s) == SubSeq(s, lastAt(s) + 1, Len(s))

GmailDomain == <<"g", "m", "a", "i", "l", ".", "c", "o", "m">>

\* validator.js isEmail, as far as the inputs of the model need it: exactly
\* one '@', a non-empty local part, a dotted domain, no blanks
isEmail(s) ==
  /\ Cardinality(atPositions(s)) = 1
  /\ ~hasChar(s, {" "})
  /\ Len(localPart(s)) >= 1
  /\ LET d == domainPart(s)
     IN /\ Len(d) >= 3
        /\ d[1] # "."
        /\ d[Len(d)] # "."
        /\ hasChar(d, {"."})

\* text before the first '+' (sub-address removal)
RECURSIVE beforePlus(_)
beforePlus(s) ==
  IF s = <<>> \/ Head(s) = "+" THEN <<>> ELSE <<Head(s)>> \o beforePlus(Tail(s))

\* validator.js normalizeEmail with its default options: the whole address
\* is lower-cased; for gmail.com the sub-address and the dots of the local
\* part are removed
normalizeEmail(s) ==
  IF atPositions(s) = {} THEN s
  ELSE LET d == toLowerCase(domainPart(s))
           l == localPart(s)
       IN IF d = GmailDomain
          THEN removeChar(toLowerCase(beforePlus(l)), ".") \o <<"@">> \o d
          ELSE toLowerCase(l) \o <<"@">> \o d

\* /^[a-zA-Z0-9_-]+$/
matchesUsernamePattern(s) ==
  /\ Len(s) >= 1
  /\ allChars(s, UpperChars \cup LowerChars \cup DigitChars \cup {"_", "-"})

\* String.prototype.startsWith
startsWith(s, p) == Len(s) >= Len(p) /\ SubSeq(s, 1, Len(p)) = p

Bearer == <<"B", "e", "a", "r", "e", "r">>

(***************************************************************************)
(* bcrypt.  A hash is the marker "$2a$10$" followed by the hashed text;    *)
(* hashing a hash gives a different value, and compare succeeds only       *)
(* against the hash of the entered text.                                   *)
(***************************************************************************)
bcryptHash(p) == <<"$2a$10$">> \o p
isHash(s) == s # <<>> /\ Head(s) = "$2a$10$"
bcryptCompare(entered, stored) == stored = bcryptHash(entered)

(***************************************************************************)
(* Validation gate (express-validator rule sets and `validate`).           *)
(* A request body is a record that holds the fields the client sent; a     *)
(* rule set returns the list of errors, one per failing validator, in      *)
(* chain order, and the sanitized body the later middleware sees.          *)
(***************************************************************************)
Has(b, k) == k \in DOMAIN b

\* value of a field as the validators see it (an absent field reads as '')
Field(b, k) == IF Has(b, k) THEN b[k] ELSE <<>>

Err(path, msg, value) == [path |-> path, msg |-> msg, value |-> value]

\* a chain that stops at its first failing validator
FieldErrors_Bail(path, value, checks) ==
  IF \E i \in 1..Len(checks) : checks[i][1]
  THEN LET first == CHOOSE i \in 1..Len(checks) :
                      checks[i][1] /\ \A j \in 1..(i - 1) : ~checks[j][1]
       IN <<Err(path, checks[first][2], value)>>
  ELSE <<>>

\* the errors of one field: checks is a sequence of <<failed, message>>
RECURSIVE FieldErrors(_, _, _)
FieldErrors(path, value, checks) ==
  IF checks = <<>> THEN <<>>
  ELSE (IF Head(checks)[1] THEN <<Err(path, Head(checks)[2], value)>> ELSE <<>>)
       \o FieldErrors(path, value, Tail(checks))

usernameChecks(u) ==
  << <<Len(u) < USERNAME_MIN_LENGTH \/ Len(u) > USERNAME_MAX_LENGTH,
       "Username must be between 3 and 30 characters">>,
     <<~matchesUsernamePattern(u),
       "Username can only contain letters, numbers, underscores, and hyphens">> >>

signupPasswordChecks(p) ==
  << <<Len(p) < PASSWORD_MIN_LENGTH,
       "Password must be at least 8 characters long">>,
     <<~hasChar(p, UpperChars),
       "Password must contain at least one uppercase letter">>,
     <<~hasChar(p, LowerChars),
       "Password must contain at least one lowercase letter">>,
     <<~hasChar(p, DigitChars),
       "Password must contain at least one number">>,
     <<~hasChar(p, SpecialChars),
       "Password must contain at least one special character">> >>

signupValidation(b) ==
  FieldErrors("email", Field(b, "email"),
     << <<~isEmail(Field(b, "email")), "Please provide a valid email address">> >>)
  \o FieldErrors("username", trim(Field(b, "username")),
                 usernameChecks(trim(Field(b, "username"))))
  \o FieldErrors("password", Field(b, "password"),
                 signupPasswordChecks(Field(b, "password")))
  \o FieldErrors("confirmPassword", Field(b, "confirmPassword"),
     << <<Field(b, "confirmPassword") # Field(b, "password"),
          "Passwords do not match">> >>)

loginValidation(b) ==
  FieldErrors("emailOrUsername", trim(Field(b, "emailOrUsername")),
     << <<trim(Field(b, "emailOrUsername")) = <<>>,
          "Email or username is required">> >>)
  \o FieldErrors("password", Field(b, "password"),
     << <<Field(b, "password") = <<>>, "Password is required">> >>)

updateProfileValidation(b) ==
  (IF Has(b, "username")
   THEN FieldErrors("username", trim(b.username), usernameChecks(trim(b.username)))
   ELSE <<>>)
  \o (IF Has(b, "email")
      THEN FieldErrors("email", b.email,
             << <<~isEmail(b.email), "Please provide a valid email address">> >>)
      ELSE <<>>)
  \o (IF Has(b, "password")
      THEN FieldErrors("password", b.password,
             << <<Len(b.password) < PASSWORD_MIN_LENGTH,
                  "Password must be at least 8 characters long">> >>)
      ELSE <<>>)

titleChecks(t, emptyMsg) ==
  << <<t = <<>>, emptyMsg>>,
     <<Len(t) > TITLE_MAX_LENGTH, "Title cannot exceed 200 characters">> >>

descriptionErrors(b) ==
  IF Has(b, "description")
  THEN FieldErrors("description", trim(b.description),
         << <<Len(trim(b.description)) > DESCRIPTION_MAX_LENGTH,
              "Description cannot exceed 2000 characters">> >>)
  ELSE <<>>

statusErrors(b) ==
  IF Has(b, "status")
  THEN FieldErrors("status", b.status,
         << <<b.status \notin TASK_STATUS,
              "Status must be one of: todo, in-progress, completed">> >>)
  ELSE <<>>

createTaskValidation(b) ==
  FieldErrors("title", trim(Field(b, "title")),
              titleChecks(trim(Field(b, "title")), "Task title is required"))
  \o descriptionErrors(b) \o statusErrors(b)

\* isMongoId: object ids are modelled as positive integers; any other value
\* of the :id parameter is not an object id
isMongoId(id) == id >= 1

taskIdValidation(b) ==
  FieldErrors("id", b.id, << <<~isMongoId(b.id), "Invalid task ID">> >>)

updateTaskValidation(b) ==
  taskIdValidation(b)
  \o (IF Has(b, "title")
      THEN FieldErrors("title", trim(b.title),
                       titleChecks(trim(b.title), "Task title cannot be empty"))
      ELSE <<>>)
  \o descriptionErrors(b) \o statusErrors(b)

\* page and limit arrive as integers here; isInt({min, max}) is the range
taskQueryValidation(b) ==
  statusErrors(b)
  \o (IF Has(b, "search")
      THEN FieldErrors("search", trim(b.search),
             << <<Len(trim(b.search)) < 1 \/ Len(trim(b.search)) > SEARCH_MAX_LENGTH,
                  "Search query must be between 1 and 100 characters">> >>)
      ELSE <<>>)
  \o (IF Has(b, "page")
      THEN FieldErrors("page", b.page,
             << <<b.page < 1, "Page must be a positive integer">> >>)
      ELSE <<>>)
  \o (IF Has(b, "limit")
      THEN FieldErrors("limit", b.limit,
             << <<b.limit < 1 \/ b.limit > LIMIT_MAX,
                  "Limit must be between 1 and 100">> >>)
      ELSE <<>>)

\* the sanitizers of the rule sets (trim, normalizeEmail) rewrite the request
sanitizeField(b, k, v) == IF Has(b, k) THEN [b EXCEPT ![k] = v] ELSE b

sanitize(route, b) ==
  CASE route = "signup" ->
         sanitizeField(sanitizeField(b, "email", normalizeEmail(Field(b, "email"))),
                       "username", trim(Field(b, "username")))
    [] route = "login" ->
         sanitizeField(b, "emailOrUsername", trim(Field(b, "emailOrUsername")))
    [] route = "updateProfile" ->
         sanitizeField(sanitizeField(b, "username", trim(Field(b, "username"))),
                       "email", normalizeEmail(Field(b, "email")))
    [] route \in {"createTask", "updateTask"} ->
         sanitizeField(sanitizeField(b, "title", trim(Field(b, "title"))),
                       "description", trim(Field(b, "description")))
    [] route = "getTasks" -> sanitizeField(b, "search", trim(Field(b, "search")))
    [] OTHER -> b

\* the rule set mounted on each route (routes/authRoutes.js, taskRoutes.js)
ruleErrors(route, b) ==
  CASE route = "signup" -> signupValidation(b)
    [] route = "login" -> loginValidation(b)
    [] route = "updateProfile" -> updateProfileValidation(b)
    [] route = "getTasks" -> taskQueryValidation(b)
    [] route = "createTask" -> createTaskValidation(b)
    [] route = "updateTask" -> updateTaskValidation(b)
    [] route \in {"getTaskById", "deleteTask"} -> taskIdValidation(b)
    [] OTHER -> <<>>

\* messages of an error list joined with ', ' (kept as the list of messages)
errorMessages(errs) == [i \in 1..Len(errs) |-> errs[i].msg]

\* validate: 422 with the joined messages and the error array when any
\* validator failed
validate(errs) ==
  [status |-> UNPROCESSABLE_ENTITY,
   body |-> [success |-> FALSE, message |-> errorMessages(errs), errors |-> errs]]

(***************************************************************************)
(* State.                                                                  *)
(*   users  the users collection: users[i] is the document with _id i      *)
(*          (no operation deletes a user)                                  *)
(*   tasks  the tasks collection, a set of documents                       *)
(*   nextTaskId  the next object id handed to a task                       *)
(*   now    the clock, in seconds                                          *)
(*   req    the last request: route, Authorization header, payload         *)
(*   res    the response to it: status and body                            *)
(*   ran    the middleware of the route that ran for it, in order          *)
(*   reqUser  req.user as the gate left it (0: not attached)               *)
(*   pending  signup requests suspended between their existence check and  *)
(*            their write                                                  *)
(*   nodeEnv  process.env.NODE_ENV, set when the process starts            *)
(* The process (server.js):                                                *)
(*   server   the HTTP server: "listening", "closing" (no longer           *)
(*            accepting, connections remain) or "closed" ('close' emitted) *)
(*   connections  the open connections, one per request in flight          *)
(*   closeListeners  callbacks of server.close waiting for 'close'         *)
(*   closers  callbacks awaiting mongoose.connection.close()               *)
(*   store    the store connection: "open", "closing" or "closed"          *)
(*   timers   the instants at which the armed force timers are due         *)
(*   signals  termination signals received                                 *)
(*   exitCode  the code of process.exit, -1 while the process runs         *)
(*   exitBy   the statement that ended the process                         *)
(* Task requests that overlap:                                             *)
(*   inflight  the task requests between two awaits of their controller,   *)
(*             and those answered since the last collection, each with     *)
(*             what it has read so far and its response                    *)
(* The client (contexts/AuthContext.tsx, lib/api.ts):                      *)
(*   clientUser  the user state of AuthProvider (NoUser: null)             *)
(*   isLoading  the isLoading state of AuthProvider                        *)
(*   authToken  localStorage's 'authToken' (NoToken: no such item)         *)
(*   mounted   the effect of AuthProvider has run                          *)
(*   calls     the API calls of the provider that have not returned        *)
(***************************************************************************)
VARIABLES users, tasks, nextTaskId, now, req, res, ran, reqUser, pending, nodeEnv

VARIABLES server, connections, closeListeners, closers, store, timers, signals,
          exitCode, exitBy

VARIABLES inflight

VARIABLES clientUser, isLoading, authToken, mounted, calls

clientVars == <<clientUser, isLoading, authToken, mounted, calls>>

NoUser == [id |-> 0]

NoToken == [jwt |-> FALSE, id |-> 0, iat |-> 0, exp |-> 0, key |-> "none"]

\* AuthProvider before its first render: useState(null), useState(true)
ClientUnmounted ==
  /\ clientUser = NoUser
  /\ isLoading = TRUE
  /\ authToken = NoToken
  /\ mounted = FALSE
  /\ calls = {}

processVars ==
  <<server, connections, closeListeners, closers, store, timers, signals,
    exitCode, exitBy>>

\* the state around the request pipeline, which no request changes
hostVars == <<nodeEnv, processVars, inflight, clientVars>>

\* startServer has connected the store and the server listens; no request
\* has arrived
ProcessStarted ==
  /\ inflight = {}
  /\ server = "listening"
  /\ connections = 0
  /\ closeListeners = 0
  /\ closers = 0
  /\ store = "open"
  /\ timers = {}
  /\ signals = 0
  /\ exitCode = -1
  /\ exitBy = "none"

vars == <<users, tasks, nextTaskId, now, req, res, ran, reqUser, pending, hostVars>>

UserIds(us) == 1..Len(us)

(***************************************************************************)
(* Response helpers (utils/response.js).                                   *)
(***************************************************************************)
sendError(statusCode, message) ==
  [status |-> statusCode, body |-> [success |-> FALSE, message |-> message]]

\* sendSuccess spreads data into {success: true, ...data}; the callers build
\* the merged record
sendSuccess(statusCode, data) == [status |-> statusCode, body |-> data]

(***************************************************************************)
(* User model (models/User.js).                                            *)
(***************************************************************************)

toPublicJSON(us, id) ==
  [id |-> id, username |-> us[id].username, email |-> us[id].email,
   createdAt |-> us[id].createdAt, updatedAt |-> us[id].updatedAt]

comparePassword(user, enteredPassword) == bcryptCompare(enteredPassword, user.password)

\* the hook without its isModified('password') test: every save hashes
preSave_EverySave(doc, passwordModified) ==
  [doc EXCEPT !.password = bcryptHash(doc.password)]

\* pre('save'): the password is hashed when it was modified
preSave(doc, passwordModified) ==
  IF passwordModified THEN [doc EXCEPT !.password = bcryptHash(doc.password)] ELSE doc

\* the schema without its unique indexes
uniqueViolation_NoIndex(us, id, doc) == ""

\* the unique indexes of userSchema (username, email): the field whose index
\* rejects writing doc as document id, or "" when the write is accepted
uniqueViolation(us, id, doc) ==
  IF \E i \in UserIds(us) : i # id /\ us[i].username = doc.username THEN "username"
  ELSE IF \E i \in UserIds(us) : i # id /\ us[i].email = doc.email THEN "email"
  ELSE ""

\* Model.findOne: the first document, in insertion order, that matches
findOneUser(matching) ==
  IF matching # {}
  THEN CHOOSE i \in matching : \A j \in matching : i <= j
  ELSE 0

(***************************************************************************)
(* Error handler (middleware/errorHandler.js).  An error is a record with  *)
(* the fields the handler looks at.                                        *)
(***************************************************************************)
duplicateKeyError(field, value) ==
  [name |-> "MongoServerError", code |-> DUPLICATE_KEY, field |-> field, value |-> value]

handleDuplicateKeyError(err) ==
  [message |-> <<err.field, err.value, "already exists">>, statusCode |-> CONFLICT]

\* the duplicate-key error is not recognised and falls to the default answer
errorHandler_DefaultOnly(err) ==
  sendError(INTERNAL_SERVER_ERROR, "E11000 duplicate key error collection")

\* an error as the handler sees it: name, code, statusCode (0: not set),
\* message and stack
thrownError(name, statusCode, message) ==
  [name |-> name, code |-> 0, statusCode |-> statusCode, message |-> message,
   stack |-> <<name, message, "at">>]

handleValidationError(err) ==
  [message |-> err.message, statusCode |-> UNPROCESSABLE_ENTITY]

handleCastError(err) ==
  [message |-> <<"Invalid", err.message>>, statusCode |-> BAD_REQUEST]

\* the default answer: err.statusCode || 500, err.message || SERVER_ERROR,
\* and the stack when NODE_ENV is 'development'
defaultErrorResponse(err) ==
  LET status == IF err.statusCode # 0 THEN err.statusCode ELSE INTERNAL_SERVER_ERROR
      message == IF err.message # "" THEN err.message ELSE "Internal server error"
  IN IF nodeEnv = "development"
     THEN [status |-> status,
           body |-> [success |-> FALSE, message |-> message, stack |-> err.stack]]
     ELSE sendError(status, message)

errorHandler(err) ==
  IF err.name = "ValidationError"
  THEN sendError(handleValidationError(err).statusCode,
                 handleValidationError(err).message)
  ELSE IF err.code = DUPLICATE_KEY
  THEN sendError(handleDuplicateKeyError(err).statusCode,
                 handleDuplicateKeyError(err).message)
  ELSE IF err.name = "CastError"
  THEN sendError(handleCastError(err).statusCode, handleCastError(err).message)
  ELSE defaultErrorResponse(err)

(***************************************************************************)
(* Tokens (utils/jwt.js, jsonwebtoken).                                    *)
(***************************************************************************)
generateToken(id, t) ==
  [jwt |-> TRUE, id |-> id, iat |-> t, exp |-> t + JWT_EXPIRES_IN, key |-> JWT_SECRET]

\* a string that is not a JWT at all
GarbageToken == [jwt |-> FALSE, id |-> 0, iat |-> 0, exp |-> 0, key |-> ""]

\* verification that ignores the exp claim
jwtVerify_IgnoreExpiration(token, secret, t) ==
  IF ~token.jwt \/ token.key # secret
  THEN [error |-> "JsonWebTokenError", id |-> 0]
  ELSE [error |-> "", id |-> token.id]

\* jwt.verify(token, secret): the error name, or "" and the payload
jwtVerify(token, secret, t) ==
  IF ~token.jwt \/ token.key # secret THEN [error |-> "JsonWebTokenError", id |-> 0]
  ELSE IF t >= token.exp THEN [error |-> "TokenExpiredError", id |-> 0]
  ELSE [error |-> "", id |-> token.id]

(***************************************************************************)
(* Authorization gate (middleware/auth.js).  A header is the sequence of   *)
(* the blank-separated fields of the Authorization header: <<>> when the   *)
(* header is absent, <<scheme>> or <<scheme, token>> otherwise.            *)
(***************************************************************************)
Unsent == [status |-> 0, body |-> [success |-> FALSE]]

\* tokens issued before the last change of the account are refused
protect_RevokedByUpdate(header, us, t) ==
  IF header # <<>> /\ startsWith(header[1], Bearer)
  THEN LET decoded == IF Len(header) >= 2
                      THEN jwtVerify(header[2], JWT_SECRET, t)
                      ELSE [error |-> "JsonWebTokenError", id |-> 0]
       IN IF decoded.error = "TokenExpiredError"
          THEN [next |-> FALSE, user |-> 0,
                res |-> sendError(UNAUTHORIZED, "Token has expired")]
          ELSE IF decoded.error = "JsonWebTokenError"
          THEN [next |-> FALSE, user |-> 0,
                res |-> sendError(UNAUTHORIZED, "Invalid token")]
          ELSE IF decoded.id \notin UserIds(us)
          THEN [next |-> FALSE, user |-> 0,
                res |-> sendError(UNAUTHORIZED, "User not found")]
          ELSE IF header[2].iat < us[decoded.id].updatedAt
          THEN [next |-> FALSE, user |-> 0,
                res |-> sendError(UNAUTHORIZED, "Invalid token")]
          ELSE [next |-> TRUE, user |-> decoded.id, res |-> Unsent]
  ELSE [next |-> FALSE, user |-> 0,
        res |-> sendError(UNAUTHORIZED, "Unauthorized access")]

protect(header, us, t) ==
  IF header # <<>> /\ startsWith(header[1], Bearer)
  THEN LET decoded == IF Len(header) >= 2
                      THEN jwtVerify(header[2], JWT_SECRET, t)
                      ELSE [error |-> "JsonWebTokenError", id |-> 0]
       IN IF decoded.error = "TokenExpiredError"
          THEN [next |-> FALSE, user |-> 0,
                res |-> sendError(UNAUTHORIZED, "Token has expired")]
          ELSE IF decoded.error = "JsonWebTokenError"
          THEN [next |-> FALSE, user |-> 0,
                res |-> sendError(UNAUTHORIZED, "Invalid token")]
          ELSE IF decoded.id \notin UserIds(us)
          THEN [next |-> FALSE, user |-> 0,
                res |-> sendError(UNAUTHORIZED, "User not found")]
          ELSE [next |-> TRUE, user |-> decoded.id, res |-> Unsent]
  ELSE [next |-> FALSE, user |-> 0,
        res |-> sendError(UNAUTHORIZED, "Unauthorized access")]

\* the optional gate turned into the mandatory one
optionalAuth_AsProtect(header, us, t) ==
  [nextCalls |-> IF protect(header, us, t).next THEN 1 ELSE 0,
   user |-> protect(header, us, t).user,
   res |-> protect(header, us, t).res]

\* optionalAuth: the same steps as protect inside a try block whose catch
\* only logs; next() is the last statement on every path.  findById of an
\* unknown id leaves req.user null (0)
optionalAuth(header, us, t) ==
  IF header # <<>> /\ startsWith(header[1], Bearer)
  THEN LET decoded == IF Len(header) >= 2
                      THEN jwtVerify(header[2], JWT_SECRET, t)
                      ELSE [error |-> "JsonWebTokenError", id |-> 0]
       IN IF decoded.error # "" \/ decoded.id \notin UserIds(us)
          THEN [nextCalls |-> 1, user |-> 0, res |-> Unsent]
          ELSE [nextCalls |-> 1, user |-> decoded.id, res |-> Unsent]
  ELSE [nextCalls |-> 1, user |-> 0, res |-> Unsent]

(***************************************************************************)
(* Auth controller (controllers/authController.js).  A handler returns the *)
(* collections as it leaves them and the response it sends.                *)
(***************************************************************************)
Result(us, ts, nid, r) == [users |-> us, tasks |-> ts, nextTaskId |-> nid, res |-> r]

\* the existence check of signup: the matching user, or 0
signupExisting(b, us) ==
  findOneUser({i \in UserIds(us) : \/ us[i].email = b.email
                                   \/ us[i].username = toLowerCase(b.username)})

\* User.create: schema setters (trim, lowercase), pre-save hash, unique
\* indexes; then the token and the 201 response
signupCreate(b, us, t) ==
  LET doc == preSave([email |-> toLowerCase(trim(b.email)),
                      username |-> toLowerCase(trim(toLowerCase(b.username))),
                      password |-> b.password,
                      createdAt |-> t, updatedAt |-> t], TRUE)
      dup == uniqueViolation(us, 0, doc)
      created == Append(us, doc)
      id == Len(created)
  IN IF dup # ""
     THEN [users |-> us, thrown |-> TRUE,
           res |-> errorHandler(duplicateKeyError(dup, doc[dup]))]
     ELSE [users |-> created, thrown |-> FALSE,
           res |-> sendSuccess(CREATED,
                     [success |-> TRUE, token |-> generateToken(id, t),
                      user |-> toPublicJSON(created, id)])]

\* the existing account is reported as a bad request
signup_BadRequest(b, us, t) ==
  LET existingUser == signupExisting(b, us)
  IN IF existingUser # 0
     THEN [users |-> us, thrown |-> FALSE,
           res |-> sendError(BAD_REQUEST,
                     IF us[existingUser].email = b.email
                     THEN "Email already registered" ELSE "Username already taken")]
     ELSE signupCreate(b, us, t)

signup(b, us, t) ==
  LET existingUser == signupExisting(b, us)
  IN IF existingUser # 0
     THEN [users |-> us, thrown |-> FALSE,
           res |-> sendError(CONFLICT,
                     IF us[existingUser].email = b.email
                     THEN "Email already registered" ELSE "Username already taken")]
     ELSE signupCreate(b, us, t)

\* the unknown identifier gets a message of its own
login_UserNotFound(b, us, t) ==
  LET user == findOneUser({i \in UserIds(us) :
                \/ us[i].email = toLowerCase(b.emailOrUsername)
                \/ us[i].username = toLowerCase(b.emailOrUsername)})
  IN IF user = 0 THEN sendError(UNAUTHORIZED, "User not found")
     ELSE IF ~comparePassword(us[user], b.password)
     THEN sendError(UNAUTHORIZED, "Invalid credentials")
     ELSE sendSuccess(OK, [success |-> TRUE, token |-> generateToken(user, t),
                           user |-> toPublicJSON(us, user)])

login(b, us, t) ==
  LET user == findOneUser({i \in UserIds(us) :
                \/ us[i].email = toLowerCase(b.emailOrUsername)
                \/ us[i].username = toLowerCase(b.emailOrUsername)})
  IN IF user = 0 THEN sendError(UNAUTHORIZED, "Invalid credentials")
     ELSE IF ~comparePassword(us[user], b.password)
     THEN sendError(UNAUTHORIZED, "Invalid credentials")
     ELSE sendSuccess(OK, [success |-> TRUE, token |-> generateToken(user, t),
                           user |-> toPublicJSON(us, user)])

profileBody(us, id) ==
  [success |-> TRUE, id |-> id, username |-> us[id].username, email |-> us[id].email,
   createdAt |-> us[id].createdAt, updatedAt |-> us[id].updatedAt]

getProfile(uid, us) ==
  IF uid \notin UserIds(us) THEN sendError(NOT_FOUND, "User not found")
  ELSE sendSuccess(OK, profileBody(us, uid))

updateProfile(uid, b, us, t) ==
  IF uid \notin UserIds(us)
  THEN [users |-> us, thrown |-> FALSE, res |-> sendError(NOT_FOUND, "User not found")]
  ELSE
  LET hasU == Has(b, "username") /\ b.username # <<>>
      hasE == Has(b, "email") /\ b.email # <<>>
      hasP == Has(b, "password") /\ b.password # <<>>
      existingUser ==
        IF hasU \/ hasE
        THEN findOneUser({i \in UserIds(us) :
               /\ i # uid
               /\ hasU => us[i].username = toLowerCase(b.username)
               /\ hasE => us[i].email = toLowerCase(b.email)})
        ELSE 0
      u1 == IF hasU THEN [us[uid] EXCEPT !.username = toLowerCase(b.username)]
            ELSE us[uid]
      u2 == IF hasE THEN [u1 EXCEPT !.email = toLowerCase(b.email)] ELSE u1
      u3 == IF hasP THEN [u2 EXCEPT !.password = b.password] ELSE u2
      doc == preSave(u3, hasP)
      dup == uniqueViolation(us, uid, doc)
      saved == IF ~hasP /\ doc = us[uid] THEN doc ELSE [doc EXCEPT !.updatedAt = t]
      written == [us EXCEPT ![uid] = saved]
  IN IF existingUser # 0
     THEN [users |-> us, thrown |-> FALSE,
           res |-> sendError(CONFLICT,
                     IF hasU /\ us[existingUser].username = toLowerCase(b.username)
                     THEN "Username already taken" ELSE "Email already registered")]
     ELSE IF dup # ""
     THEN [users |-> us, thrown |-> TRUE,
           res |-> errorHandler(duplicateKeyError(dup, doc[dup]))]
     ELSE [users |-> written, thrown |-> FALSE,
           res |-> sendSuccess(OK, profileBody(written, uid))]

(***************************************************************************)
(* Task model (models/Task.js).                                            *)
(***************************************************************************)
\* the words of a text, lower-cased, as the text index sees them
RECURSIVE words(_, _)
words(s, cur) ==
  IF s = <<>> THEN (IF cur = <<>> THEN {} ELSE {cur})
  ELSE IF Head(s) = " "
       THEN (IF cur = <<>> THEN {} ELSE {cur}) \cup words(Tail(s), <<>>)
       ELSE words(Tail(s), cur \o <<lowerChar(Head(s))>>)

\* $text: {$search}: some word of the search occurs in title or description
textMatch(task, search) ==
  words(search, <<>>) \cap (words(task.title, <<>>) \cup words(task.description, <<>>)) # {}

\* the status filter is left out of the query
taskQuery_IgnoreStatus(ts, userId, filters) ==
  {k \in ts : /\ k.userId = userId
              /\ Has(filters, "search") => textMatch(k, filters.search)}

\* the query of findByUser and countByUser
taskQuery(ts, userId, filters) ==
  {k \in ts : /\ k.userId = userId
              /\ Has(filters, "status") => k.status = filters.status
              /\ Has(filters, "search") => textMatch(k, filters.search)}

\* sort('-createdAt'): newest first; documents of the same instant keep the
\* order of their ids
RECURSIVE sortNewestFirst(_)
sortNewestFirst(S) ==
  IF S = {} THEN <<>>
  ELSE LET first == CHOOSE k \in S : \A o \in S :
                      \/ k.createdAt > o.createdAt
                      \/ (k.createdAt = o.createdAt /\ k.id <= o.id)
       IN <<first>> \o sortNewestFirst(S \ {first})

\* skip(n).limit(m) on a sorted result
skipLimit(sq, skip, limit) ==
  SubSeq(sq, skip + 1, IF skip + limit < Len(sq) THEN skip + limit ELSE Len(sq))

findByUser(ts, userId, filters, options) ==
  LET sorted == sortNewestFirst(taskQuery(ts, userId, filters))
  IN IF Has(options, "page") /\ Has(options, "limit")
     THEN skipLimit(sorted, (options.page - 1) * options.limit, options.limit)
     ELSE sorted

countByUser(ts, userId, filters) == Cardinality(taskQuery(ts, userId, filters))

\* the quotient is rounded down
ceilDiv_Floor(a, b) == a \div b

\* Math.ceil(a / b) for a >= 0, b >= 1
ceilDiv(a, b) == (a + b - 1) \div b

sendPaginatedResponse(data, page, limit, total) ==
  [status |-> OK,
   body |-> [success |-> TRUE, data |-> data,
             pagination |-> [currentPage |-> page,
                             totalPages |-> ceilDiv(total, limit),
                             totalItems |-> total,
                             itemsPerPage |-> limit,
                             hasNextPage |-> page < ceilDiv(total, limit),
                             hasPrevPage |-> page > 1]]]

\* findOne({_id}) -- the owner is left out of the filter
findOneTask_AnyOwner(ts, id, userId) == {k \in ts : k.id = id}

\* Model.findOne({_id, userId}): the set of matching tasks (empty or one)
findOneTask(ts, id, userId) == {k \in ts : k.id = id /\ k.userId = userId}

(***************************************************************************)
(* Task controller (controllers/taskController.js).                        *)
(***************************************************************************)
getTasks(uid, q, ts) ==
  LET f1 == IF Has(q, "status") THEN [status |-> q.status] ELSE <<>>
      filters == IF Has(q, "search") /\ q.search # <<>>
                 THEN (IF Has(q, "status")
                       THEN [status |-> q.status, search |-> q.search]
                       ELSE [search |-> q.search])
                 ELSE f1
      usePagination == Has(q, "page") /\ Has(q, "limit")
  IN IF usePagination
     THEN sendPaginatedResponse(
            findByUser(ts, uid, filters, [page |-> q.page, limit |-> q.limit]),
            q.page, q.limit, countByUser(ts, uid, filters))
     ELSE [status |-> OK, body |-> findByUser(ts, uid, filters, <<>>)]

\* the task of another user is found first and refused as forbidden
getTaskById_Forbidden(uid, p, ts) ==
  IF findOneTask(ts, p.id, uid) # {}
  THEN [status |-> OK, body |-> CHOOSE k \in findOneTask(ts, p.id, uid) : TRUE]
  ELSE IF \E k \in ts : k.id = p.id
  THEN sendError(FORBIDDEN, "Access forbidden")
  ELSE sendError(NOT_FOUND, "Task not found")

getTaskById(uid, p, ts) ==
  LET task == findOneTask(ts, p.id, uid)
  IN IF task = {} THEN sendError(NOT_FOUND, "Task not found")
     ELSE [status |-> OK, body |-> CHOOSE k \in task : TRUE]

\* the status of the body is dropped: every task starts as 'todo'
createTask_DefaultStatus(uid, b, ts, nid, t) ==
  [tasks |-> ts \cup {[id |-> nid, userId |-> uid, title |-> trim(b.title),
                       description |-> IF Has(b, "description") THEN trim(b.description)
                                       ELSE <<>>,
                       status |-> "todo", createdAt |-> t, updatedAt |-> t]},
   nextTaskId |-> nid + 1,
   res |-> [status |-> CREATED,
            body |-> [id |-> nid, userId |-> uid, title |-> trim(b.title),
                      description |-> IF Has(b, "description") THEN trim(b.description)
                                      ELSE <<>>,
                      status |-> "todo", createdAt |-> t, updatedAt |-> t]]]

\* Task.create({userId: req.user.id, ...req.body}): the body may name the owner
createTask_SpreadBody(uid, b, ts, nid, t) ==
  LET task == [id |-> nid, userId |-> IF Has(b, "userId") THEN b.userId ELSE uid,
               title |-> trim(b.title),
               description |-> IF Has(b, "description") THEN trim(b.description) ELSE <<>>,
               status |-> IF Has(b, "status") THEN b.status ELSE "todo",
               createdAt |-> t, updatedAt |-> t]
  IN [tasks |-> ts \cup {task}, nextTaskId |-> nid + 1,
      res |-> [status |-> CREATED, body |-> task]]

createTask(uid, b, ts, nid, t) ==
  LET task == [id |-> nid, userId |-> uid,
               title |-> trim(b.title),
               description |-> IF Has(b, "description") THEN trim(b.description) ELSE <<>>,
               status |-> IF Has(b, "status") THEN b.status ELSE "todo",
               createdAt |-> t, updatedAt |-> t]
  IN [tasks |-> ts \cup {task}, nextTaskId |-> nid + 1,
      res |-> [status |-> CREATED, body |-> task]]

\* the patch is applied as a replacement: an absent status becomes the default
updateTask_Replace(uid, b, ts, t) ==
  LET found == findOneTask(ts, b.id, uid)
      task == CHOOSE k \in found : TRUE
      t1 == IF Has(b, "title") THEN [task EXCEPT !.title = trim(b.title)] ELSE task
      t2 == IF Has(b, "description")
            THEN [t1 EXCEPT !.description = trim(b.description)] ELSE t1
      t3 == [t2 EXCEPT !.status = IF Has(b, "status") THEN b.status ELSE "todo"]
      saved == IF t3 = task THEN task ELSE [t3 EXCEPT !.updatedAt = t]
  IN IF found = {}
     THEN [tasks |-> ts, res |-> sendError(NOT_FOUND, "Task not found")]
     ELSE [tasks |-> (ts \ {task}) \cup {saved},
           res |-> [status |-> OK, body |-> saved]]

updateTask(uid, b, ts, t) ==
  LET found == findOneTask(ts, b.id, uid)
      task == CHOOSE k \in found : TRUE
      t1 == IF Has(b, "title") THEN [task EXCEPT !.title = trim(b.title)] ELSE task
      t2 == IF Has(b, "description")
            THEN [t1 EXCEPT !.description = trim(b.description)] ELSE t1
      t3 == IF Has(b, "status") THEN [t2 EXCEPT !.status = b.status] ELSE t2
      saved == IF t3 = task THEN task ELSE [t3 EXCEPT !.updatedAt = t]
  IN IF found = {}
     THEN [tasks |-> ts, res |-> sendError(NOT_FOUND, "Task not found")]
     ELSE [tasks |-> (ts \ {task}) \cup {saved},
           res |-> [status |-> OK, body |-> saved]]

\* a delete that finds nothing is answered like one that removed the task
deleteTask_Idempotent(uid, p, ts) ==
  [tasks |-> ts \ findOneTask(ts, p.id, uid),
   res |-> sendSuccess(OK, [success |-> TRUE, message |-> "Task deleted successfully"])]

deleteTask(uid, p, ts) ==
  LET found == findOneTask(ts, p.id, uid)
  IN IF found = {}
     THEN [tasks |-> ts, res |-> sendError(NOT_FOUND, "Task not found")]
     ELSE [tasks |-> ts \ found,
           res |-> sendSuccess(OK, [success |-> TRUE,
                                    message |-> "Task deleted successfully"])]

\* the assignments of updateTask to the document it has read
patchTask(task, b) ==
  LET t1 == IF Has(b, "title") THEN [task EXCEPT !.title = trim(b.title)] ELSE task
      t2 == IF Has(b, "description")
            THEN [t1 EXCEPT !.description = trim(b.description)] ELSE t1
  IN IF Has(b, "status") THEN [t2 EXCEPT !.status = b.status] ELSE t2

\* Mongoose's error for a save that matches no document
DocumentNotFound == thrownError("DocumentNotFoundError", 0, "No document found for query")

\* a save that writes the document back when it is gone
saveTask_Upsert(ts, read, doc, t) ==
  [tasks |-> {k \in ts : k.id # read.id} \cup {[doc EXCEPT !.updatedAt = t]},
   thrown |-> FALSE, doc |-> [doc EXCEPT !.updatedAt = t]]

\* task.save() of a document read earlier: updateOne({_id}, {$set: the
\* modified paths}), or an existence check when no path is modified; it
\* rejects with DocumentNotFoundError when no document has the _id
saveTask(ts, read, doc, t) ==
  LET stored == {k \in ts : k.id = read.id}
      modified == {f \in {"title", "description", "status"} : doc[f] # read[f]}
      stamped == IF modified # {} THEN [doc EXCEPT !.updatedAt = t] ELSE doc
      written(cur) == [f \in DOMAIN cur |->
                        IF f \in modified \cup {"updatedAt"} THEN stamped[f] ELSE cur[f]]
  IN IF stored = {}
     THEN [tasks |-> ts, thrown |-> TRUE, doc |-> doc]
     ELSE [tasks |-> (ts \ stored) \cup {written(k) : k \in stored},
           thrown |-> FALSE, doc |-> stamped]

(***************************************************************************)
(* Routes (routes/authRoutes.js, routes/taskRoutes.js): the middleware of  *)
(* each route in the order it is mounted.  "validate" stands for the rule  *)
(* set of the route followed by `validate`.                                *)
(***************************************************************************)
PublicRoutes == {"signup", "login"}
TaskRoutes == {"getTasks", "createTask", "getTaskById", "updateTask", "deleteTask"}
ProtectedRoutes == {"getProfile", "updateProfile"} \cup TaskRoutes
Routes == PublicRoutes \cup ProtectedRoutes

chain(route) ==
  CASE route \in PublicRoutes -> <<"validate", "handler">>
    [] route = "getProfile" -> <<"protect", "handler">>
    [] route = "updateProfile" -> <<"protect", "validate", "handler">>
    [] route \in TaskRoutes -> <<"protect", "validate", "handler">>

\* the controller of a route, run on the request context
handler(c) ==
  LET keep(r) == [c EXCEPT !.res = r, !.done = TRUE]
      \* next(error): the error handler answers
      via(thrown) == IF thrown THEN Append(c.ran, "errorHandler") ELSE c.ran
  IN CASE c.route = "signup" ->
            LET o == signup(c.body, c.users, c.now)
            IN [c EXCEPT !.users = o.users, !.res = o.res, !.done = TRUE,
                         !.ran = via(o.thrown)]
       [] c.route = "login" -> keep(login(c.body, c.users, c.now))
       [] c.route = "getProfile" -> keep(getProfile(c.user, c.users))
       [] c.route = "updateProfile" ->
            LET o == updateProfile(c.user, c.body, c.users, c.now)
            IN [c EXCEPT !.users = o.users, !.res = o.res, !.done = TRUE,
                         !.ran = via(o.thrown)]
       [] c.route = "getTasks" -> keep(getTasks(c.user, c.body, c.tasks))
       [] c.route = "getTaskById" -> keep(getTaskById(c.user, c.body, c.tasks))
       [] c.route = "createTask" ->
            LET o == createTask(c.user, c.body, c.tasks, c.nextTaskId, c.now)
            IN [c EXCEPT !.tasks = o.tasks, !.nextTaskId = o.nextTaskId,
                         !.res = o.res, !.done = TRUE]
       [] c.route = "updateTask" ->
            LET o == updateTask(c.user, c.body, c.tasks, c.now)
            IN [c EXCEPT !.tasks = o.tasks, !.res = o.res, !.done = TRUE]
       [] c.route = "deleteTask" ->
            LET o == deleteTask(c.user, c.body, c.tasks)
            IN [c EXCEPT !.tasks = o.tasks, !.res = o.res, !.done = TRUE]

\* one middleware of the chain
step(name, c) ==
  LET entered == [c EXCEPT !.ran = Append(c.ran, name)]
  IN CASE name = "protect" ->
            LET a == protect(c.header, c.users, c.now)
            IN IF a.next THEN [entered EXCEPT !.user = a.user]
               ELSE [entered EXCEPT !.res = a.res, !.done = TRUE]
       [] name = "validate" ->
            LET errs == ruleErrors(c.route, c.body)
            IN IF errs # <<>>
               THEN [entered EXCEPT !.res = validate(errs), !.done = TRUE]
               ELSE [entered EXCEPT !.body = sanitize(c.route, c.body)]
       [] name = "handler" -> handler(entered)

RECURSIVE runChain(_, _)
runChain(names, c) ==
  IF names = <<>> \/ c.done THEN c ELSE runChain(Tail(names), step(Head(names), c))

\* the whole request: the context after the chain of its route has run
serve(route, header, body, us, ts, nid, t) ==
  runChain(chain(route),
           [route |-> route, header |-> header, body |-> body, users |-> us,
            tasks |-> ts, nextTaskId |-> nid, now |-> t, user |-> 0,
            res |-> Unsent, ran |-> <<>>, done |-> FALSE])

(***************************************************************************)
(* Inputs.                                                                 *)
(***************************************************************************)
EmptyBody == [k \in {} |-> <<>>]

\* a record with field k for each value of V, and the record without it
Opt(k, V) == {EmptyBody} \cup {[j \in {k} |-> v] : v \in V}

E_GMAIL == <<"a", ".", "b", "@", "g", "m", "a", "i", "l", ".", "c", "o", "m">>
E_GMAIL_NORMAL == <<"a", "b", "@", "g", "m", "a", "i", "l", ".", "c", "o", "m">>
E_CAPS == <<"A", "b", "@", "x", ".", "i", "o">>
E_PLAIN == <<"a", "b", "@", "x", ".", "i", "o">>
E_BAD == <<"a", "b">>

U_BOB == <<"b", "o", "b">>
U_BOBCAP == <<"B", "o", "b">>
U_AMYPAD == <<" ", "a", "m", "y">>
U_AMY == <<"a", "m", "y">>
U_BAD == <<"a", "!">>

P_STRONG == <<"A", "b", "c", "d", "e", "f", "1", "!">>
P_OTHER == <<"Z", "y", "x", "w", "v", "u", "9", "?">>
P_WEAK == <<"p", "a", "s", "s", "w", "o", "r", "d">>
P_SHORT == <<"a", "b", "c">>

T_MILK == <<"m", "i", "l", "k">>
T_PAD == <<" ", "t", "e", "a", " ">>
D_TEXT == <<"c", "o", "l", "d", " ", "m", "i", "l", "k">>

\* payloads of the full pipeline: for each route a valid one and one that
\* breaks a validation rule
SignupBodies ==
  {[email |-> E_PLAIN, username |-> U_BOB, password |-> P_STRONG,
    confirmPassword |-> P_STRONG],
   [email |-> E_CAPS, username |-> U_AMY, password |-> P_STRONG,
    confirmPassword |-> P_STRONG],
   [email |-> E_BAD, username |-> U_AMY, password |-> P_WEAK,
    confirmPassword |-> P_STRONG]}

LoginBodies ==
  {[emailOrUsername |-> U_BOB, password |-> P_STRONG],
   [emailOrUsername |-> U_BOB, password |-> P_OTHER],
   [emailOrUsername |-> <<" ">>, password |-> P_STRONG]}

UpdateProfileBodies ==
  {EmptyBody, [password |-> P_OTHER], [username |-> U_BAD, password |-> P_OTHER]}

\* object ids a client may name: those handed out so far, one never handed
\* out, and a string that is no object id (0)
TaskIdParams(nid) == 0..nid

CreateTaskBodies == {[title |-> T_MILK], [status |-> "completed"]}

UpdateTaskBodies(nid) ==
  {i @@ st : i \in {[id |-> n] : n \in TaskIdParams(nid)},
             st \in {[status |-> "completed"], [status |-> "done"]}}

TaskQueries == {EmptyBody, [page |-> 1, limit |-> 1], [page |-> 0, limit |-> 1]}

\* payloads of the account routes
AuthSignupBodies ==
  {[email |-> e, username |-> u, password |-> P_STRONG, confirmPassword |-> P_STRONG] :
     e \in {E_GMAIL, E_CAPS, E_PLAIN}, u \in {U_BOB, U_BOBCAP, U_AMYPAD}}
  \cup {[email |-> E_BAD, username |-> U_BAD, password |-> P_WEAK,
         confirmPassword |-> P_STRONG]}

AuthLoginBodies ==
  {[emailOrUsername |-> i, password |-> p] :
     i \in {E_GMAIL, E_GMAIL_NORMAL, E_CAPS, U_BOBCAP, U_AMYPAD},
     p \in {P_STRONG, P_OTHER}}
  \cup {[emailOrUsername |-> <<" ">>, password |-> <<>>]}

AuthUpdateProfileBodies ==
  {u @@ e @@ p : u \in Opt("username", {U_AMY, U_BOBCAP}),
                 e \in Opt("email", {E_CAPS, E_GMAIL}),
                 p \in Opt("password", {P_OTHER})}
  \cup {[password |-> P_SHORT], [password |-> P_WEAK]}

\* payloads of the task routes
TaskCreateBodies ==
  {[title |-> T_MILK], [title |-> T_PAD, status |-> "completed"],
   [description |-> D_TEXT, status |-> "done"],
   [title |-> T_MILK, description |-> D_TEXT, userId |-> 2]}

TaskUpdateBodies(nid) ==
  {i @@ b : i \in {[id |-> n] : n \in TaskIdParams(nid)},
            b \in {[title |-> T_PAD], [status |-> "completed"], [title |-> <<" ">>],
                   [title |-> T_MILK, userId |-> 2, createdAt |-> MaxTime]}}

TaskListQueries ==
  {EmptyBody, [status |-> "completed"], [search |-> T_MILK],
   [page |-> 1, limit |-> 1], [page |-> 2, limit |-> 1], [page |-> 0, limit |-> 1]}

\* an id no user document has: a user removed from the store by hand
GhostUserId == MaxUsers + 1

\* tokens the server may have signed by time t: for each user, at any
\* instant since the user was created
IssuedTokens(us, t) ==
  {k \in {generateToken(i, s) : i \in UserIds(us), s \in 0..t} :
     k.iat >= us[k.id].createdAt}

\* tokens the server never accepts for a user: one for a user removed from
\* the store, one signed with another key, one that is no JWT
OddTokens(t) ==
  {generateToken(GhostUserId, t),
   [generateToken(1, t) EXCEPT !.key = FOREIGN_SECRET],
   GarbageToken}

BearerX == Bearer \o <<"X">>
Basic == <<"B", "a", "s", "i", "c">>

Headers(us, t) ==
  {<<>>, <<Bearer>>}
  \cup {<<Bearer, k>> : k \in IssuedTokens(us, t)}
  \cup {<<Bearer, k>> : k \in OddTokens(t)}
  \cup {<<sc, k>> : sc \in {BearerX, Basic},
                    k \in {j \in IssuedTokens(us, t) : j.iat = t}}

\* the headers of well-behaved clients: none, or a token signed just now
FreshHeaders(us, t) == {<<>>} \cup {<<Bearer, generateToken(i, t)>> : i \in UserIds(us)}

(***************************************************************************)
(* Actions.  The server takes one request at a time: Request serves a      *)
(* request from arrival to response, Done ends the exchange.               *)
(***************************************************************************)
NoReq == [route |-> "none"]

Idle == req = NoReq

Init ==
  /\ users = <<>>
  /\ tasks = {}
  /\ nextTaskId = 1
  /\ now = 0
  /\ req = NoReq
  /\ res = Unsent
  /\ ran = <<>>
  /\ reqUser = 0
  /\ pending = {}
  /\ nodeEnv = "production"
  /\ ProcessStarted
  /\ ClientUnmounted

\* the response is written and the collections are left as the chain left them
respondWithin(c, route, header, body, cap) ==
  /\ Idle
  /\ Len(c.users) <= MaxUsers
  /\ c.nextTaskId <= cap + 1
  /\ users' = c.users
  /\ tasks' = c.tasks
  /\ nextTaskId' = c.nextTaskId
  /\ req' = [route |-> route, header |-> header, body |-> body]
  /\ res' = c.res
  /\ ran' = c.ran
  /\ reqUser' = c.user
  /\ UNCHANGED <<now, pending, hostVars>>

respond(c, route, header, body) == respondWithin(c, route, header, body, MaxTasks)

Request(route, header, body) ==
  respond(serve(route, header, body, users, tasks, nextTaskId, now), route, header, body)

\* the routes, each over a set of payloads and a set of headers
SignupOver(B) == \E b \in B : Request("signup", <<>>, b)

LoginOver(B) == \E b \in B : Request("login", <<>>, b)

GetProfileOver(H) == \E h \in H : Request("getProfile", h, EmptyBody)

UpdateProfileOver(H, B) == \E h \in H, b \in B : Request("updateProfile", h, b)

GetTasksOver(H, Q) == \E h \in H, q \in Q : Request("getTasks", h, q)

GetTaskByIdOver(H) ==
  \E h \in H, i \in TaskIdParams(nextTaskId) : Request("getTaskById", h, [id |-> i])

CreateTaskOver(H, B) == \E h \in H, b \in B : Request("createTask", h, b)

UpdateTaskOver(H, B) == \E h \in H, b \in B : Request("updateTask", h, b)

DeleteTaskOver(H) ==
  \E h \in H, i \in TaskIdParams(nextTaskId) : Request("deleteTask", h, [id |-> i])

\* the response has been written: the exchange is over
Done ==
  /\ ~Idle
  /\ req' = NoReq
  /\ res' = Unsent
  /\ ran' = <<>>
  /\ reqUser' = 0
  /\ UNCHANGED <<users, tasks, nextTaskId, now, pending, hostVars>>

Tick ==
  /\ Idle
  /\ now < MaxTime
  /\ now' = now + 1
  /\ UNCHANGED <<users, tasks, nextTaskId, req, res, ran, reqUser, pending, hostVars>>

(***************************************************************************)
(* Spec: every route of the API, each with a valid and an invalid payload;  *)
(* the profile routes are called with every kind of Authorization header.  *)
(***************************************************************************)
Signup == SignupOver(SignupBodies)
Login == LoginOver(LoginBodies)
GetProfile == GetProfileOver(Headers(users, now))
UpdateProfile == UpdateProfileOver(Headers(users, now), UpdateProfileBodies)
GetTasks == GetTasksOver(FreshHeaders(users, now), TaskQueries)
GetTaskById == GetTaskByIdOver(FreshHeaders(users, now))
CreateTask == CreateTaskOver(FreshHeaders(users, now), CreateTaskBodies)
UpdateTask == UpdateTaskOver(FreshHeaders(users, now), UpdateTaskBodies(nextTaskId))
DeleteTask == DeleteTaskOver(FreshHeaders(users, now))

Next ==
  \/ Signup
  \/ Login
  \/ GetProfile
  \/ UpdateProfile
  \/ GetTasks
  \/ GetTaskById
  \/ CreateTask
  \/ UpdateTask
  \/ DeleteTask
  \/ Done
  \/ Tick

Spec == Init /\ [][Next]_vars

(***************************************************************************)
(* SpecAuth: the account routes with a wider range of credentials.         *)
(***************************************************************************)
AuthSignup == SignupOver(AuthSignupBodies)
AuthLogin == LoginOver(AuthLoginBodies)
AuthGetProfile == GetProfileOver(Headers(users, now))
AuthUpdateProfile == UpdateProfileOver(FreshHeaders(users, now), AuthUpdateProfileBodies)

NextAuth ==
  \/ AuthSignup
  \/ AuthLogin
  \/ AuthGetProfile
  \/ AuthUpdateProfile
  \/ Done
  \/ Tick

SpecAuth == Init /\ [][NextAuth]_vars

(***************************************************************************)
(* SpecTasks: the task routes, called by two registered users.             *)
(***************************************************************************)
\* the time the task specifications cover
MaxTaskTime == 1

TwoUsers ==
  signup(sanitize("signup",
           [email |-> E_GMAIL, username |-> U_AMY, password |-> P_OTHER,
            confirmPassword |-> P_OTHER]),
         signup(sanitize("signup",
                  [email |-> E_PLAIN, username |-> U_BOB, password |-> P_STRONG,
                   confirmPassword |-> P_STRONG]),
                <<>>, 0).users,
         0).users

InitTasks ==
  /\ users = TwoUsers
  /\ tasks = {}
  /\ nextTaskId = 1
  /\ now = 0
  /\ req = NoReq
  /\ res = Unsent
  /\ ran = <<>>
  /\ reqUser = 0
  /\ pending = {}
  /\ nodeEnv = "production"
  /\ ProcessStarted
  /\ ClientUnmounted

TasksList == GetTasksOver(FreshHeaders(users, now), TaskListQueries)
TasksGet == GetTaskByIdOver(FreshHeaders(users, now))
TasksCreate == CreateTaskOver(FreshHeaders(users, now), TaskCreateBodies)
TasksUpdate == UpdateTaskOver(FreshHeaders(users, now), TaskUpdateBodies(nextTaskId))
TasksDelete == DeleteTaskOver(FreshHeaders(users, now))

TasksTick == now < MaxTaskTime /\ Tick

NextTasks ==
  \/ TasksList
  \/ TasksGet
  \/ TasksCreate
  \/ TasksUpdate
  \/ TasksDelete
  \/ Done
  \/ TasksTick

SpecTasks == InitTasks /\ [][NextTasks]_vars

(***************************************************************************)
(* SpecList: the task routes with several tasks in the store, for the      *)
(* listing, the filters and the life of a task id.                         *)
(***************************************************************************)
MaxListTasks == 2

T_TEA == <<"t", "e", "a">>

ListCreateBodies ==
  {[title |-> T_MILK], [title |-> T_TEA, description |-> D_TEXT, status |-> "completed"]}

ListUpdateBodies(nid) == {[id |-> n, status |-> "completed"] : n \in TaskIdParams(nid)}

ListQueries ==
  {EmptyBody, [status |-> "completed"], [search |-> T_TEA], [search |-> T_MILK],
   [status |-> "todo", search |-> T_MILK], [page |-> 1, limit |-> 1],
   [page |-> 2, limit |-> 1], [page |-> 3, limit |-> 1], [page |-> 1, limit |-> 2],
   [status |-> "completed", page |-> 1, limit |-> 1]}

ListRequest(route, header, body) ==
  respondWithin(serve(route, header, body, users, tasks, nextTaskId, now),
                route, header, body, MaxListTasks)

ListTasks ==
  \E h \in FreshHeaders(users, now), q \in ListQueries : ListRequest("getTasks", h, q)

ListGet ==
  \E h \in FreshHeaders(users, now), i \in TaskIdParams(nextTaskId) :
     ListRequest("getTaskById", h, [id |-> i])

ListCreate ==
  \E h \in FreshHeaders(users, now), b \in ListCreateBodies :
     ListRequest("createTask", h, b)

ListUpdate ==
  \E h \in FreshHeaders(users, now), b \in ListUpdateBodies(nextTaskId) :
     ListRequest("updateTask", h, b)

ListDelete ==
  \E h \in FreshHeaders(users, now), i \in TaskIdParams(nextTaskId) :
     ListRequest("deleteTask", h, [id |-> i])

NextList ==
  \/ ListTasks
  \/ ListGet
  \/ ListCreate
  \/ ListUpdate
  \/ ListDelete
  \/ Done
  \/ TasksTick

SpecList == InitTasks /\ [][NextList]_vars

(***************************************************************************)
(* SpecRace: signup requests that overlap.  A signup is suspended at its   *)
(* awaits: after the existence check (SignupCheck) and resumed at          *)
(* User.create (SignupWrite); other signups run in between.                *)
(***************************************************************************)
MaxPending == 2

RaceSignupBodies ==
  {[email |-> e, username |-> u, password |-> P_STRONG, confirmPassword |-> P_STRONG] :
     e \in {E_CAPS, E_PLAIN, E_GMAIL}, u \in {U_BOB, U_BOBCAP, U_AMY}}

FreeSlots == (1..MaxPending) \ {p.slot : p \in pending}

\* validation and the existence check pass; the request awaits User.create
SignupCheck ==
  \E b \in RaceSignupBodies, sl \in FreeSlots :
     /\ Idle
     /\ ruleErrors("signup", b) = <<>>
     /\ signupExisting(sanitize("signup", b), users) = 0
     /\ pending' = pending \cup {[slot |-> sl, raw |-> b, body |-> sanitize("signup", b)]}
     /\ UNCHANGED <<users, tasks, nextTaskId, now, req, res, ran, reqUser, hostVars>>

\* User.create of a suspended signup, and its response
SignupWrite ==
  \E p \in pending :
     LET o == signupCreate(p.body, users, now)
     IN /\ Idle
        /\ Len(o.users) <= MaxUsers
        /\ users' = o.users
        /\ req' = [route |-> "signup", header |-> <<>>, body |-> p.raw]
        /\ res' = o.res
        /\ ran' = IF o.thrown THEN <<"validate", "handler", "errorHandler">>
                  ELSE <<"validate", "handler">>
        /\ reqUser' = 0
        /\ pending' = pending \ {p}
        /\ UNCHANGED <<tasks, nextTaskId, now, hostVars>>

\* a signup that runs from arrival to response without being overtaken
RaceSignup == SignupOver(RaceSignupBodies)

NextRace ==
  \/ SignupCheck
  \/ SignupWrite
  \/ RaceSignup
  \/ Done

SpecRace == Init /\ [][NextRace]_vars

(***************************************************************************)
(* SpecFault: requests during which something throws.  The store rejects   *)
(* the first operation of the gate or of the controller, or express.json   *)
(* rejects the body before the route is reached.  The controllers pass     *)
(* what they catch to next(error); the gate answers in its own catch block.*)
(***************************************************************************)
NodeEnvs == {"development", "production", "test"}

\* the driver cannot reach the store
StoreDown == thrownError("MongoNetworkError", 0, "connect ECONNREFUSED 127.0.0.1:27017")

\* body-parser's error for a body that is not JSON: it carries statusCode 400
MalformedJson == thrownError("SyntaxError", BAD_REQUEST, "Unexpected token } in JSON")

\* the step of the chain in which the store rejects
stepThrows(name, c, err) ==
  LET entered == [c EXCEPT !.ran = Append(c.ran, name)]
  IN CASE name = "protect" ->
            \* User.findById is reached once the token has verified; the
            \* catch block names only the two JWT errors
            IF /\ c.header # <<>>
               /\ startsWith(c.header[1], Bearer)
               /\ Len(c.header) >= 2
               /\ jwtVerify(c.header[2], JWT_SECRET, c.now).error = ""
            THEN [entered EXCEPT !.res = sendError(UNAUTHORIZED, "Invalid or expired token"),
                                 !.done = TRUE, !.raised = TRUE]
            ELSE step(name, c)
       [] name = "handler" ->
            [entered EXCEPT !.res = errorHandler(err), !.done = TRUE, !.raised = TRUE,
                            !.ran = Append(entered.ran, "errorHandler")]
       [] OTHER -> step(name, c)

RECURSIVE runChainThrows(_, _, _, _)
runChainThrows(names, c, at, err) ==
  IF names = <<>> \/ c.done THEN c
  ELSE runChainThrows(Tail(names),
                      IF Head(names) = at THEN stepThrows(Head(names), c, err)
                      ELSE step(Head(names), c),
                      at, err)

\* the request during which the store rejects in step `at`
serveThrows(route, header, body, us, ts, nid, t, at, err) ==
  runChainThrows(chain(route),
                 [route |-> route, header |-> header, body |-> body, users |-> us,
                  tasks |-> ts, nextTaskId |-> nid, now |-> t, user |-> 0,
                  res |-> Unsent, ran |-> <<>>, done |-> FALSE, raised |-> FALSE],
                 at, err)

\* the payloads of a route
Payloads(route, nid) ==
  CASE route = "signup" -> SignupBodies
    [] route = "login" -> LoginBodies
    [] route = "getProfile" -> {EmptyBody}
    [] route = "updateProfile" -> UpdateProfileBodies
    [] route = "getTasks" -> TaskQueries
    [] route = "createTask" -> CreateTaskBodies
    [] route = "updateTask" -> UpdateTaskBodies(nid)
    [] route \in {"getTaskById", "deleteTask"} -> {[id |-> n] : n \in TaskIdParams(nid)}

InitFault ==
  /\ users = TwoUsers
  /\ tasks = {}
  /\ nextTaskId = 1
  /\ now = 0
  /\ req = NoReq
  /\ res = Unsent
  /\ ran = <<>>
  /\ reqUser = 0
  /\ pending = {}
  /\ nodeEnv \in NodeEnvs
  /\ ProcessStarted
  /\ ClientUnmounted

\* the exchange of a request in which err was thrown
respondThrown(c, route, header, body, err) ==
  /\ Idle
  /\ c.raised
  /\ req' = [route |-> route, header |-> header, body |-> body, thrown |-> err]
  /\ res' = c.res
  /\ ran' = c.ran
  /\ reqUser' = c.user
  /\ UNCHANGED <<users, tasks, nextTaskId, now, pending, hostVars>>

\* a request of any route during which the store is down
StoreFails ==
  \E route \in Routes, at \in {"protect", "handler"} :
     \E h \in FreshHeaders(users, now), b \in Payloads(route, nextTaskId) :
        respondThrown(serveThrows(route, h, b, users, tasks, nextTaskId, now, at, StoreDown),
                      route, h, b, StoreDown)

\* a request with a body that express.json cannot parse: the error goes
\* from the parser to the error handler, past the route
BodyFails ==
  \E route \in {"signup", "login", "updateProfile", "createTask", "updateTask"} :
     \E h \in FreshHeaders(users, now) :
        respondThrown([res |-> errorHandler(MalformedJson), user |-> 0, raised |-> TRUE,
                       ran |-> <<"express.json", "errorHandler">>],
                      route, h, EmptyBody, MalformedJson)

NextFault ==
  \/ StoreFails
  \/ BodyFails
  \/ Done

SpecFault == InitFault /\ [][NextFault]_vars

(***************************************************************************)
(* SpecOptional: the optional gate in front of a handler that reads        *)
(* req.user, called with every kind of Authorization header while accounts *)
(* are created and time passes.                                            *)
(***************************************************************************)
\* the gate ran for header h: what it sent, how often it called next and
\* the identity it left on the request
OptionalAuthRequest(h) ==
  LET a == optionalAuth(h, users, now)
  IN /\ Idle
     /\ req' = [route |-> "optionalAuth", header |-> h, body |-> EmptyBody]
     /\ res' = a.res
     /\ ran' = <<"optionalAuth">> \o [i \in 1..a.nextCalls |-> "next"]
     /\ reqUser' = a.user
     /\ UNCHANGED <<users, tasks, nextTaskId, now, pending, hostVars>>

OptionalAuth == \E h \in Headers(users, now) : OptionalAuthRequest(h)

NextOptional ==
  \/ Signup
  \/ OptionalAuth
  \/ Done
  \/ Tick

SpecOptional == Init /\ [][NextOptional]_vars

(***************************************************************************)
(* SpecShutdown: the process from its start to its exit (server.js).       *)
(* Requests arrive and complete while the server listens; termination      *)
(* signals run gracefulShutdown; 'close' is emitted once the server has    *)
(* stopped listening and no connection remains; each callback of           *)
(* server.close then closes the store and exits; a force timer exits once  *)
(* its delay (10 s in the code, FORCE_SHUTDOWN_DELAY ticks here) is over.  *)
(* A request in flight may never complete.                                 *)
(***************************************************************************)
MaxConnections == 2
MaxSignals == 2
FORCE_SHUTDOWN_DELAY == 1

pipeVars ==
  <<users, tasks, nextTaskId, now, req, res, ran, reqUser, pending, nodeEnv, inflight,
    clientVars>>

Running == exitCode = -1

\* a connection is accepted for a new request
Accept ==
  /\ Running
  /\ server = "listening"
  /\ connections < MaxConnections
  /\ connections' = connections + 1
  /\ UNCHANGED <<server, closeListeners, closers, store, timers, signals,
                 exitCode, exitBy, pipeVars>>

\* a request in flight is answered and its connection ends
Complete ==
  /\ Running
  /\ connections > 0
  /\ connections' = connections - 1
  /\ UNCHANGED <<server, closeListeners, closers, store, timers, signals,
                 exitCode, exitBy, pipeVars>>

\* the handler closes the store at once, before the server has closed
gracefulShutdown_StoreFirst ==
  /\ Running
  /\ signals < MaxSignals
  /\ signals' = signals + 1
  /\ server' = IF server = "listening" THEN "closing" ELSE server
  /\ now + FORCE_SHUTDOWN_DELAY <= MaxTime
  /\ closers' = closers + 1
  /\ store' = IF store = "open" THEN "closing" ELSE store
  /\ timers' = timers \cup {now + FORCE_SHUTDOWN_DELAY}
  /\ UNCHANGED <<connections, closeListeners, exitCode, exitBy, pipeVars>>

\* the handler arms no force timer
gracefulShutdown_NoTimer ==
  /\ Running
  /\ signals < MaxSignals
  /\ signals' = signals + 1
  /\ server' = IF server = "listening" THEN "closing" ELSE server
  /\ now + FORCE_SHUTDOWN_DELAY <= MaxTime
  /\ closeListeners' = closeListeners + 1
  /\ UNCHANGED <<connections, closers, store, timers, exitCode, exitBy, pipeVars>>

\* SIGTERM or SIGINT: server.close(callback) stops listening and registers
\* the callback for 'close' (also when the server no longer listens), and
\* setTimeout arms a force timer
gracefulShutdown ==
  /\ Running
  /\ signals < MaxSignals
  /\ signals' = signals + 1
  /\ server' = IF server = "listening" THEN "closing" ELSE server
  /\ now + FORCE_SHUTDOWN_DELAY <= MaxTime
  /\ closeListeners' = closeListeners + 1
  /\ timers' = timers \cup {now + FORCE_SHUTDOWN_DELAY}
  /\ UNCHANGED <<connections, closers, store, exitCode, exitBy, pipeVars>>

\* 'close' is emitted: the server does not listen and no connection is
\* left; the registered callbacks run up to their await of
\* mongoose.connection.close()
EmitClose ==
  /\ Running
  /\ server # "listening"
  /\ connections = 0
  /\ closeListeners > 0
  /\ server' = "closed"
  /\ closers' = closers + closeListeners
  /\ closeListeners' = 0
  /\ store' = IF store = "open" THEN "closing" ELSE store
  /\ UNCHANGED <<connections, timers, signals, exitCode, exitBy, pipeVars>>

\* mongoose.connection.close() resolves and the callback exits with 0
StoreCloseResolves ==
  /\ Running
  /\ closers > 0
  /\ store' = "closed"
  /\ exitCode' = 0
  /\ exitBy' = "closed"
  /\ UNCHANGED <<server, connections, closeListeners, closers, timers, signals,
                 pipeVars>>

\* mongoose.connection.close() rejects and the callback exits with 1
StoreCloseRejects ==
  /\ Running
  /\ closers > 0
  /\ exitCode' = 1
  /\ exitBy' = "closeError"
  /\ UNCHANGED <<server, connections, closeListeners, closers, store, timers,
                 signals, pipeVars>>

\* a force timer is due and fires
ForceExit ==
  /\ Running
  /\ \E due \in timers : now >= due
  /\ exitCode' = 1
  /\ exitBy' = "timeout"
  /\ UNCHANGED <<server, connections, closeListeners, closers, store, timers,
                 signals, pipeVars>>

\* time passes while the process runs
ProcessTick ==
  /\ Running
  /\ now < MaxTime
  /\ now' = now + 1
  /\ UNCHANGED <<users, tasks, nextTaskId, req, res, ran, reqUser, pending, hostVars>>

NextShutdown ==
  \/ Accept
  \/ Complete
  \/ gracefulShutdown
  \/ EmitClose
  \/ StoreCloseResolves
  \/ StoreCloseRejects
  \/ ForceExit
  \/ ProcessTick

SpecShutdown == Init /\ [][NextShutdown]_vars

\* time passes, and the event loop runs the callback of a timer that is due
SpecShutdownLive == SpecShutdown /\ WF_vars(ProcessTick) /\ WF_vars(ForceExit)

(***************************************************************************)
(* SpecTaskRace: task requests of one user that overlap.  A controller is  *)
(* suspended at each await: deleteTask before findOneAndDelete, updateTask *)
(* before findOne and before save, getTasks before find and before         *)
(* countDocuments.  Each store operation is atomic; the operations of      *)
(* different requests interleave freely.                                   *)
(***************************************************************************)
MaxRacing == 2

RaceSlots == (1..MaxRacing) \ {p.slot : p \in inflight}

RaceHeader == <<Bearer, generateToken(1, now)>>

\* the request has passed the gate and the validation of its route
arrived(route, b, sl) ==
  [slot |-> sl, route |-> route, user |-> protect(RaceHeader, users, now).user,
   body |-> sanitize(route, b), stage |-> "arrived",
   seen |-> \E k \in tasks : Has(b, "id") /\ k.id = b.id,
   read |-> {}, data |-> <<>>, res |-> Unsent]

Arrive(route, b) ==
  \E sl \in RaceSlots :
     /\ protect(RaceHeader, users, now).next
     /\ ruleErrors(route, b) = <<>>
     /\ inflight' = inflight \cup {arrived(route, b, sl)}
     /\ UNCHANGED <<users, tasks, nextTaskId, now, req, res, ran, reqUser, pending,
                    nodeEnv, processVars, clientVars>>

\* the ids a client has been given: those of the tasks created so far
ArriveDelete == \E i \in 1..(nextTaskId - 1) : Arrive("deleteTask", [id |-> i])

ArriveUpdate ==
  \E i \in 1..(nextTaskId - 1), b \in {EmptyBody, [status |-> "completed"]} :
     Arrive("updateTask", [id |-> i] @@ b)

ArriveList == \E pg \in 1..2 : Arrive("getTasks", [page |-> pg, limit |-> 1])

\* the request p moves on to entry q, the tasks collection becomes ts
advance(p, q, ts) ==
  /\ inflight' = (inflight \ {p}) \cup {q}
  /\ tasks' = ts
  /\ UNCHANGED <<users, nextTaskId, now, req, res, ran, reqUser, pending,
                 nodeEnv, processVars, clientVars>>

\* findOneAndDelete and the response of deleteTask
DeleteExec ==
  \E p \in inflight :
     /\ p.route = "deleteTask" /\ p.stage = "arrived"
     /\ advance(p, [p EXCEPT !.stage = "answered",
                              !.res = deleteTask(p.user, p.body, tasks).res],
                deleteTask(p.user, p.body, tasks).tasks)

\* findOne of updateTask: 404, or the document is held for the save
UpdateRead ==
  \E p \in inflight :
     /\ p.route = "updateTask" /\ p.stage = "arrived"
     /\ advance(p, IF findOneTask(tasks, p.body.id, p.user) = {}
                   THEN [p EXCEPT !.stage = "answered",
                                  !.res = sendError(NOT_FOUND, "Task not found")]
                   ELSE [p EXCEPT !.stage = "read",
                                  !.read = findOneTask(tasks, p.body.id, p.user)],
                tasks)

\* the assignments, task.save() and the response of updateTask
saved(p) ==
  saveTask(tasks, CHOOSE k \in p.read : TRUE,
           patchTask(CHOOSE k \in p.read : TRUE, p.body), now)

UpdateSave ==
  \E p \in inflight :
     /\ p.route = "updateTask" /\ p.stage = "read"
     /\ advance(p, [p EXCEPT !.stage = "answered",
                              !.res = IF saved(p).thrown THEN errorHandler(DocumentNotFound)
                                      ELSE [status |-> OK, body |-> saved(p).doc]],
                saved(p).tasks)

\* Task.findByUser of a paged getTasks
ListFind ==
  \E p \in inflight :
     /\ p.route = "getTasks" /\ p.stage = "arrived"
     /\ advance(p, [p EXCEPT !.stage = "found",
                              !.data = findByUser(tasks, p.user, <<>>,
                                         [page |-> p.body.page, limit |-> p.body.limit])],
                tasks)

\* Task.countByUser and the response of a paged getTasks
ListCount ==
  \E p \in inflight :
     /\ p.route = "getTasks" /\ p.stage = "found"
     /\ advance(p, [p EXCEPT !.stage = "answered",
                              !.res = sendPaginatedResponse(p.data, p.body.page,
                                        p.body.limit, countByUser(tasks, p.user, <<>>))],
                tasks)

\* a createTask of the same user, from arrival to response
RaceCreate ==
  /\ nextTaskId <= MaxListTasks
  /\ tasks' = createTask(1, [title |-> T_MILK], tasks, nextTaskId, now).tasks
  /\ nextTaskId' = nextTaskId + 1
  /\ UNCHANGED <<users, now, req, res, ran, reqUser, pending, hostVars>>

\* every request has been answered: the responses are collected
Collect ==
  /\ inflight # {}
  /\ \A p \in inflight : p.stage = "answered"
  /\ inflight' = {}
  /\ UNCHANGED <<users, tasks, nextTaskId, now, req, res, ran, reqUser, pending,
                 nodeEnv, processVars, clientVars>>

NextTaskRace ==
  \/ ArriveDelete
  \/ ArriveUpdate
  \/ ArriveList
  \/ DeleteExec
  \/ UpdateRead
  \/ UpdateSave
  \/ ListFind
  \/ ListCount
  \/ RaceCreate
  \/ Collect

SpecTaskRace == InitTasks /\ [][NextTaskRace]_vars

(***************************************************************************)
(* SpecClient: the AuthProvider of the web client against the server.  An  *)
(* API call is sent (apiRequest reads the token from localStorage and      *)
(* builds the header), the server serves it, and the continuation of the   *)
(* caller runs when the response arrives; logout and further calls run in  *)
(* between.                                                                *)
(***************************************************************************)
MaxCalls == 2

CallSlots == (1..MaxCalls) \ {c.slot : c \in calls}

\* apiRequest: the Authorization header is set when a token is stored
apiHeader(token) == IF token = NoToken THEN <<>> ELSE <<Bearer, token>>

\* response.ok
responseOk(r) == r.status >= 200 /\ r.status <= 299

apiRequest(kind, route, body, sl) ==
  [slot |-> sl, kind |-> kind, route |-> route, header |-> apiHeader(authToken),
   body |-> body, stage |-> "sent", res |-> Unsent]

ClientLoginBodies ==
  {[emailOrUsername |-> U_BOB, password |-> P_STRONG],
   [emailOrUsername |-> U_BOB, password |-> P_OTHER]}

ClientSignupBodies ==
  {[email |-> E_GMAIL, username |-> U_AMY, password |-> P_OTHER,
    confirmPassword |-> P_OTHER]}

\* one account exists; the browser may hold the token of an earlier session
InitClient ==
  /\ users = SubSeq(TwoUsers, 1, 1)
  /\ tasks = {}
  /\ nextTaskId = 1
  /\ now = 0
  /\ req = NoReq
  /\ res = Unsent
  /\ ran = <<>>
  /\ reqUser = 0
  /\ pending = {}
  /\ nodeEnv = "production"
  /\ ProcessStarted
  /\ clientUser = NoUser
  /\ isLoading = TRUE
  /\ authToken \in {NoToken, generateToken(1, 0)}
  /\ mounted = FALSE
  /\ calls = {}

serverVars ==
  <<users, tasks, nextTaskId, now, req, res, ran, reqUser, pending, nodeEnv,
    processVars, inflight>>

\* useEffect on mount: refreshUser() when a token is stored
Mount ==
  /\ ~mounted
  /\ mounted' = TRUE
  /\ IF authToken # NoToken
     THEN /\ calls' = calls \cup {apiRequest("refreshUser", "getProfile", EmptyBody, 1)}
          /\ UNCHANGED isLoading
     ELSE /\ isLoading' = FALSE
          /\ UNCHANGED calls
  /\ UNCHANGED <<clientUser, authToken, serverVars>>

\* a call of the provider starts: its request is sent
startCall(kind, route, body) ==
  \E sl \in CallSlots :
     /\ mounted
     /\ calls' = calls \cup {apiRequest(kind, route, body, sl)}
     /\ UNCHANGED <<clientUser, isLoading, authToken, mounted, serverVars>>

ClientRefresh == startCall("refreshUser", "getProfile", EmptyBody)

ClientLogin == \E b \in ClientLoginBodies : startCall("login", "login", b)

ClientSignup == \E b \in ClientSignupBodies : startCall("signup", "signup", b)

\* logout: removeAuthToken(); setUser(null)
ClientLogout ==
  /\ mounted
  /\ authToken' = NoToken
  /\ clientUser' = NoUser
  /\ UNCHANGED <<isLoading, mounted, calls, serverVars>>

\* the server serves the request c; the response is on its way
replied(c, o) ==
  /\ Len(o.users) <= MaxUsers
  /\ users' = o.users
  /\ calls' = (calls \ {c}) \cup {[c EXCEPT !.stage = "replied", !.res = o.res]}
  /\ UNCHANGED <<tasks, nextTaskId, now, req, res, ran, reqUser, pending, nodeEnv,
                 processVars, inflight, clientUser, isLoading, authToken, mounted>>

ServerReply ==
  \E c \in calls :
     /\ c.stage = "sent"
     /\ replied(c, serve(c.route, c.header, c.body, users, tasks, nextTaskId, now))

\* the response of refreshUser arrives: setUser(userData), or in the catch
\* removeAuthToken() and setUser(null); finally setIsLoading(false)
RefreshReturns ==
  \E c \in calls :
     /\ c.kind = "refreshUser" /\ c.stage = "replied"
     /\ calls' = calls \ {c}
     /\ isLoading' = FALSE
     /\ IF responseOk(c.res)
        THEN clientUser' = [id |-> c.res.body.id] /\ UNCHANGED authToken
        ELSE clientUser' = NoUser /\ authToken' = NoToken
     /\ UNCHANGED <<mounted, serverVars>>

\* the response of login or signup arrives: setAuthToken(response.token)
\* and setUser(response.user), or the error is shown and thrown again
AuthReturns ==
  \E c \in calls :
     /\ c.kind \in {"login", "signup"} /\ c.stage = "replied"
     /\ calls' = calls \ {c}
     /\ IF responseOk(c.res)
        THEN authToken' = c.res.body.token /\ clientUser' = [id |-> c.res.body.user.id]
        ELSE UNCHANGED <<authToken, clientUser>>
     /\ UNCHANGED <<isLoading, mounted, serverVars>>

NextClient ==
  \/ Mount
  \/ ClientRefresh
  \/ ClientLogin
  \/ ClientSignup
  \/ ClientLogout
  \/ ServerReply
  \/ RefreshReturns
  \/ AuthReturns
  \/ Tick

SpecClient == InitClient /\ [][NextClient]_vars

(***************************************************************************)
(* Properties.                                                             *)
(***************************************************************************)
Range(f) == {f[i] : i \in DOMAIN f}

Served == ~Idle
HandlerRan == "handler" \in Range(ran)

\* the tasks a response carries
TasksInResponse(rq, rs) ==
  IF rs.status \notin {OK, CREATED} THEN {}
  ELSE CASE rq.route = "getTasks" ->
              IF Has(rq.body, "page") /\ Has(rq.body, "limit")
              THEN Range(rs.body.data) ELSE Range(rs.body)
         [] rq.route \in {"getTaskById", "createTask", "updateTask"} -> {rs.body}
         [] OTHER -> {}

\* C1: a task is invisible and immutable to every user but its owner: a
\* request served for another caller leaves the task in the store as it
\* was, no response carries a task the caller does not own, and a get,
\* update or delete that names the task's id and reaches the controller is
\* answered 404
C1_TaskOwnershipIsolation ==
  [][(Idle /\ ~Idle' /\ req'.route \in TaskRoutes) =>
       /\ \A k \in TasksInResponse(req', res') : k.userId = reqUser'
       /\ \A k \in tasks :
            k.userId # reqUser' =>
              /\ k \in tasks'
              /\ ( /\ req'.route \in {"getTaskById", "updateTask", "deleteTask"}
                   /\ req'.body.id = k.id
                   /\ "handler" \in Range(ran') ) => res'.status = NOT_FOUND]_vars

C1_Witness ==
  /\ Served
  /\ req.route \in {"getTaskById", "updateTask", "deleteTask"}
  /\ HandlerRan
  /\ reqUser # 0
  /\ \E k \in tasks : k.id = req.body.id /\ k.userId # reqUser
  /\ res.status = NOT_FOUND

\* the token of a header of the exact form 'Bearer <token>' is accepted:
\* signed with the server's secret, not expired, for an existing user
AcceptableBearer(h, us, t) ==
  /\ Len(h) = 2
  /\ h[1] = Bearer
  /\ h[2].jwt
  /\ h[2].key = JWT_SECRET
  /\ t < h[2].exp
  /\ h[2].id \in UserIds(us)

\* C2: behind the authorization gate the middleware after it runs only for
\* a request with an 'Authorization: Bearer <token>' header whose token is
\* valid, unexpired and of an existing user, and then req.user is that
\* user; every other request is answered 401 by the gate
C2_GateAdmitsOnlyBearerTokens ==
  (Served /\ req.route \in ProtectedRoutes) =>
     IF AcceptableBearer(req.header, users, now)
     THEN reqUser = req.header[2].id /\ Len(ran) >= 2
     ELSE res.status = UNAUTHORIZED /\ ran = <<"protect">> /\ reqUser = 0

\* the login a client sends right after the signup that was just served
LoginAfter(rq, ident) ==
  serve("login", <<>>, [emailOrUsername |-> ident, password |-> rq.body.password],
        users, tasks, nextTaskId, now)

\* C3: after a successful signup, a login with the email or with the
\* username as submitted and the same password succeeds, and its token
\* passes the authorization gate as the user the signup created
C3_LoginAfterSignup ==
  (Served /\ req.route = "signup" /\ res.status = CREATED) =>
     \A ident \in {req.body.email, req.body.username} :
        LET r == LoginAfter(req, ident).res
        IN /\ r.status = OK
           /\ protect(<<Bearer, r.body.token>>, users, now).next
           /\ protect(<<Bearer, r.body.token>>, users, now).user = res.body.user.id

equalsIgnoreCase(a, b) == toLowerCase(a) = toLowerCase(b)

\* a valid signup whose email or username equals, ignoring case, that of a
\* registered user
DuplicateSignup(rq, us) ==
  /\ rq.route = "signup"
  /\ ruleErrors("signup", rq.body) = <<>>
  /\ \E i \in UserIds(us) : \/ equalsIgnoreCase(rq.body.email, us[i].email)
                            \/ equalsIgnoreCase(rq.body.username, us[i].username)

\* C4: a signup that repeats a registered email or username, in any letter
\* case, is answered 409 and leaves the users collection as it was
C4_DuplicateSignupConflicts ==
  [][(Idle /\ ~Idle' /\ DuplicateSignup(req', users)) =>
       (res'.status = CONFLICT /\ users' = users)]_vars

C4_Witness ==
  /\ Served
  /\ res.status = CONFLICT
  /\ DuplicateSignup(req, users)
  /\ \E i \in UserIds(users) :
        \/ equalsIgnoreCase(req.body.email, users[i].email)
           /\ req.body.email # users[i].email
        \/ equalsIgnoreCase(req.body.username, users[i].username)
           /\ req.body.username # users[i].username

NoDuplicateUsers ==
  \A i, j \in UserIds(users) :
     i # j => users[i].email # users[j].email /\ users[i].username # users[j].username

\* a suspended signup whose email or username a user holds by now
LostRace(p, us) ==
  \E i \in UserIds(us) : \/ us[i].email = p.body.email
                         \/ us[i].username = toLowerCase(p.body.username)

\* C5: of overlapping signups with the same email or username at most one
\* creates a user; the write of the other is answered 409 and creates
\* nothing; no two users ever share an email or a username
C5_ConcurrentSignupOneWinner ==
  /\ []NoDuplicateUsers
  /\ [][\A p \in pending :
          (pending' = pending \ {p} /\ LostRace(p, users)) =>
             (res'.status = CONFLICT /\ users' = users)]_vars

C5_Witness ==
  /\ Served
  /\ req.route = "signup"
  /\ ran = <<"validate", "handler", "errorHandler">>
  /\ res.status = CONFLICT
  /\ Len(users) = 1

\* the texts of a user projection
UserTexts(u) == {u[k] : k \in DOMAIN u \ {"id", "createdAt", "updatedAt", "success"}}

TextPaths == {"email", "username", "password", "confirmPassword", "emailOrUsername",
              "title", "description", "search"}

\* every text a response body carries besides its fixed messages
TextLeaves(rq, rs) ==
  IF rs.status = UNPROCESSABLE_ENTITY
  THEN {e.value : e \in {x \in Range(rs.body.errors) : x.path \in TextPaths}}
  ELSE IF rs.status = CONFLICT /\ "errorHandler" \in Range(ran)
  THEN {rs.body.message[2]}
  ELSE IF rs.status \in {OK, CREATED} /\ rq.route \in {"signup", "login"}
  THEN UserTexts(rs.body.user)
  ELSE IF rs.status = OK /\ rq.route \in {"getProfile", "updateProfile"}
  THEN UserTexts(rs.body)
  ELSE UNION {{k.title, k.description} : k \in TasksInResponse(rq, rs)}

\* the password a stored hash was computed from
plaintextOf(user) == Tail(user.password)

\* C6: no response body, of a successful or of a failing request, carries
\* the plaintext password or the stored password hash of a user
C6_NoPasswordInResponses ==
  Served =>
    \A x \in TextLeaves(req, res), i \in UserIds(users) :
       x # users[i].password /\ x # plaintextOf(users[i])

InvalidCredentials ==
  [status |-> UNAUTHORIZED, body |-> [success |-> FALSE, message |-> "Invalid credentials"]]

\* the users a login identifier names
LoginMatches(rq, us) ==
  {i \in UserIds(us) :
     \/ us[i].email = toLowerCase(trim(rq.body.emailOrUsername))
     \/ us[i].username = toLowerCase(trim(rq.body.emailOrUsername))}

\* C7: a login that fails because no user has the identifier and a login
\* that fails because the password is wrong get the same response, status
\* and body
C7_LoginFailuresIndistinguishable ==
  (Served /\ req.route = "login" /\ HandlerRan) =>
     /\ LoginMatches(req, users) = {} => res = InvalidCredentials
     /\ (\E i \in LoginMatches(req, users) :
            ~comparePassword(users[i], req.body.password)) => res = InvalidCredentials

C7_Witness ==
  /\ Served
  /\ req.route = "login"
  /\ HandlerRan
  /\ \E i \in LoginMatches(req, users) : ~comparePassword(users[i], req.body.password)
  /\ res = InvalidCredentials

\* C8: on a route behind the authorization gate a payload that breaks a
\* validation rule is answered 422 by the validation gate, and the
\* authorization gate has not run
C8_ValidationBeforeAuthorization ==
  (Served /\ req.route \in ProtectedRoutes /\ ruleErrors(req.route, req.body) # <<>>) =>
     (res.status = UNPROCESSABLE_ENTITY /\ "protect" \notin Range(ran))

\* C9: a request that breaks a validation rule is answered 422, its
\* controller does not run, and both collections stay as they were
C9_InvalidRequestHasNoEffect ==
  [][(Idle /\ ~Idle' /\ ruleErrors(req'.route, req'.body) # <<>>) =>
       /\ res'.status = UNPROCESSABLE_ENTITY
       /\ "handler" \notin Range(ran')
       /\ users' = users
       /\ tasks' = tasks]_vars

\* a request behind the gate that presents a token signed by the server
\* after the token's issue time plus its lifetime
PresentsExpired(rq, t) ==
  /\ rq.route \in ProtectedRoutes
  /\ Len(rq.header) = 2
  /\ rq.header[1] = Bearer
  /\ rq.header[2].jwt
  /\ rq.header[2].key = JWT_SECRET
  /\ t > rq.header[2].iat + JWT_EXPIRES_IN

\* C10: a token presented after its issue time plus the configured
\* lifetime is answered 401 by the gate and the controller does not run
C10_ExpiredTokenRejected ==
  (Served /\ PresentsExpired(req, now)) =>
     (res.status = UNAUTHORIZED /\ ~HandlerRan /\ reqUser = 0)

C10_Witness ==
  /\ Served
  /\ PresentsExpired(req, now)
  /\ now = req.header[2].iat + JWT_EXPIRES_IN + 1
  /\ res = sendError(UNAUTHORIZED, "Token has expired")

\* C11: there is no revocation: every token the server issued to a user is
\* accepted by the authorization gate, as that user, at every moment before
\* its expiry, whatever logins, profile updates (a password change
\* included) and task operations were served since it was issued
C11_NoRevocation ==
  \A k \in IssuedTokens(users, now) :
     now < k.exp =>
        /\ protect(<<Bearer, k>>, users, now).next
        /\ protect(<<Bearer, k>>, users, now).user = k.id

C11_Witness ==
  /\ Served
  /\ req.route = "updateProfile"
  /\ res.status = OK
  /\ Has(req.body, "password")
  /\ \E k \in IssuedTokens(users, now) : k.id = reqUser /\ k.iat < now /\ now < k.exp

\* the password policy: 8 characters or more, with an uppercase letter, a
\* lowercase letter, a digit and a special character
meetsPasswordPolicy(p) ==
  \A i \in 1..Len(signupPasswordChecks(p)) : ~signupPasswordChecks(p)[i][1]

\* C12: every password the server has stored, at signup or through a
\* profile update, satisfies the password policy
C12_StoredPasswordsMeetPolicy ==
  \A i \in UserIds(users) : meetsPasswordPolicy(plaintextOf(users[i]))

\* a profile update that reaches the controller and supplies a username or
\* an email held by a user other than the caller
ProfileCollision(rq, uid, us) ==
  LET b == sanitize("updateProfile", rq.body)
  IN \E i \in UserIds(us) :
        /\ i # uid
        /\ \/ Has(b, "username") /\ toLowerCase(b.username) = us[i].username
           \/ Has(b, "email") /\ toLowerCase(b.email) = us[i].email

\* C13: a profile update that supplies a username or an email held by
\* another user is answered 409 and changes no user, also when it supplies
\* both fields and only one of them collides
C13_ProfileUpdateConflict ==
  [][( /\ Idle /\ ~Idle'
       /\ req'.route = "updateProfile"
       /\ "handler" \in Range(ran')
       /\ ProfileCollision(req', reqUser', users) ) =>
       (res'.status = CONFLICT /\ users' = users)]_vars

C13_Witness ==
  /\ Served
  /\ req.route = "updateProfile"
  /\ Has(req.body, "username") /\ Has(req.body, "email")
  /\ ProfileCollision(req, reqUser, users)
  /\ ~\E i \in UserIds(users) :
        /\ i # reqUser
        /\ toLowerCase(sanitize("updateProfile", req.body).username) = users[i].username
        /\ toLowerCase(sanitize("updateProfile", req.body).email) = users[i].email
  /\ res.status = CONFLICT

\* the stored password of every user but `written` is as it was
OtherHashesKept(written) ==
  \A i \in UserIds(users) : i # written => users'[i].password = users[i].password

\* C14: the password is hashed exactly once per write: a signup and a
\* profile update that supplies a password store the single hash of the
\* submitted plaintext, every other request leaves every stored hash as it
\* was; so a login that names a user succeeds exactly when its password is
\* the one set last
C14_HashedOncePerWrite ==
  /\ [][(Idle /\ ~Idle') =>
          CASE req'.route = "signup" /\ res'.status = CREATED ->
                 /\ users'[Len(users')].password = bcryptHash(req'.body.password)
                 /\ OtherHashesKept(0)
            [] req'.route = "updateProfile" /\ res'.status = OK
                 /\ Has(req'.body, "password") ->
                 /\ users'[reqUser'].password = bcryptHash(req'.body.password)
                 /\ OtherHashesKept(reqUser')
            [] OTHER -> Len(users') = Len(users) /\ OtherHashesKept(0)]_vars
  /\ [](( /\ Served /\ req.route = "login" /\ HandlerRan
          /\ LoginMatches(req, users) # {} ) =>
          (res.status = OK <=>
             \E i \in LoginMatches(req, users) :
                req.body.password = plaintextOf(users[i])))

C14_Witness ==
  /\ Served
  /\ req.route = "login"
  /\ res.status = OK
  /\ req.body.password = P_OTHER
  /\ \E i \in LoginMatches(req, users) :
        users[i].updatedAt > users[i].createdAt /\ plaintextOf(users[i]) = P_OTHER

\* the task of the store with this id
taskById(ts, id) == CHOOSE k \in ts : k.id = id

\* C15: an update by the owner changes only the fields its body holds:
\* title, description and status keep their values when absent and take
\* the submitted (trimmed) value when present; id, owner and creation time
\* stay, whatever the body holds; every other task is left as it was
C15_UpdateChangesOnlyPatchedFields ==
  [][( /\ Idle /\ ~Idle'
       /\ req'.route = "updateTask"
       /\ res'.status = OK ) =>
       LET b == req'.body
           old == taskById(tasks, b.id)
           new == taskById(tasks', b.id)
       IN /\ res'.body = new
          /\ tasks' \ {new} = tasks \ {old}
          /\ new.id = old.id
          /\ new.userId = old.userId
          /\ new.createdAt = old.createdAt
          /\ new.title = (IF Has(b, "title") THEN trim(b.title) ELSE old.title)
          /\ new.description =
               (IF Has(b, "description") THEN trim(b.description) ELSE old.description)
          /\ new.status = (IF Has(b, "status") THEN b.status ELSE old.status)]_vars

C15_Witness ==
  /\ Served
  /\ req.route = "updateTask"
  /\ res.status = OK
  /\ Has(req.body, "userId") /\ req.body.userId # reqUser
  /\ ~Has(req.body, "status")
  /\ res.body.userId = reqUser
  /\ res.body.status = "completed"
  /\ res.body.createdAt # req.body.createdAt

\* C16: the owner of a created task is the caller the authorization gate
\* resolved, whatever the body holds (an owner of the client's choosing
\* included); a missing description is stored as the empty string and a
\* missing status as 'todo'
C16_CreatedTaskOwnedByCaller ==
  [][( /\ Idle /\ ~Idle'
       /\ req'.route = "createTask"
       /\ res'.status = CREATED ) =>
       LET b == req'.body
           new == res'.body
       IN /\ new \notin tasks
          /\ tasks' = tasks \cup {new}
          /\ reqUser' = req'.header[2].id
          /\ new.userId = reqUser'
          /\ new.title = trim(b.title)
          /\ new.description = (IF Has(b, "description") THEN trim(b.description) ELSE <<>>)
          /\ new.status = (IF Has(b, "status") THEN b.status ELSE "todo")]_vars

C16_Witness ==
  /\ Served
  /\ req.route = "createTask"
  /\ res.status = CREATED
  /\ Has(req.body, "userId") /\ req.body.userId # reqUser
  /\ ~Has(req.body, "status")
  /\ res.body \in tasks
  /\ res.body.userId = reqUser
  /\ res.body.status = "todo"

taskIds(ts) == {k.id : k \in ts}

\* a get, update or delete by id that reaches the controller
ByIdRequest(rq, rn) ==
  /\ rq.route \in {"getTaskById", "updateTask", "deleteTask"}
  /\ "handler" \in Range(rn)

\* C17: the delete of an owned task is answered 200 and removes the task;
\* the id of a removed task never names a task again, every later get,
\* update or delete of it is answered 404 and changes nothing, and no list
\* holds a task that is not in the store
C17_DeleteIsPermanent ==
  /\ [][( /\ Idle /\ ~Idle'
          /\ ByIdRequest(req', ran')
          /\ req'.route = "deleteTask"
          /\ \E k \in tasks : k.id = req'.body.id /\ k.userId = reqUser' ) =>
          (res'.status = OK /\ req'.body.id \notin taskIds(tasks'))]_vars
  /\ [][\A id \in 1..(nextTaskId - 1) :
          id \notin taskIds(tasks) => id \notin taskIds(tasks')]_vars
  /\ [][( /\ Idle /\ ~Idle'
          /\ ByIdRequest(req', ran')
          /\ req'.body.id \notin taskIds(tasks) ) =>
          (res'.status = NOT_FOUND /\ tasks' = tasks)]_vars
  /\ [](Served /\ req.route = "getTasks" => TasksInResponse(req, res) \subseteq tasks)

C17_Witness ==
  /\ Served
  /\ ByIdRequest(req, ran)
  /\ req.route = "deleteTask"
  /\ req.body.id \in 1..(nextTaskId - 1)
  /\ req.body.id \notin taskIds(tasks)
  /\ tasks # {}
  /\ res.status = NOT_FOUND

\* the get of the task just created, sent by the same caller
GetAfterCreate ==
  serve("getTaskById", req.header, [id |-> res.body.id],
        users, tasks, nextTaskId, now).res

Created == Served /\ req.route = "createTask" /\ res.status = CREATED

\* C18 as stated: a get that follows an accepted create returns the title,
\* description and status exactly as they were submitted
C18_RoundTripAsSubmitted ==
  Created =>
     /\ GetAfterCreate.status = OK
     /\ GetAfterCreate.body.title = req.body.title
     /\ Has(req.body, "description") =>
           GetAfterCreate.body.description = req.body.description
     /\ Has(req.body, "status") => GetAfterCreate.body.status = req.body.status

\* C18 amended: a get that follows an accepted create returns the title and
\* the description as submitted with surrounding whitespace removed (an
\* absent description as the empty string), the status as submitted (an
\* absent status as 'todo'), the id the create returned, the caller as
\* owner and the time of the create as both timestamps
C18_RoundTripTrimmed ==
  Created =>
     /\ GetAfterCreate.status = OK
     /\ GetAfterCreate.body = res.body
     /\ GetAfterCreate.body.title = trim(req.body.title)
     /\ GetAfterCreate.body.description =
          (IF Has(req.body, "description") THEN trim(req.body.description) ELSE <<>>)
     /\ GetAfterCreate.body.status =
          (IF Has(req.body, "status") THEN req.body.status ELSE "todo")
     /\ GetAfterCreate.body.userId = reqUser
     /\ GetAfterCreate.body.createdAt = now
     /\ GetAfterCreate.body.updatedAt = now

C18_Witness ==
  /\ Created
  /\ req.body.title # trim(req.body.title)
  /\ Has(req.body, "status") /\ req.body.status # "todo"
  /\ GetAfterCreate.status = OK
  /\ GetAfterCreate.body.title = trim(req.body.title)

TaskNotFound == sendError(NOT_FOUND, "Task not found")

\* C19: a get, update or delete of an id that names no task and one of an
\* id that names a task of another user get the same response, status 404
\* and the same body
C19_MissingAndForeignAlike ==
  [][( /\ Idle /\ ~Idle'
       /\ ByIdRequest(req', ran')
       /\ ~\E k \in tasks : k.id = req'.body.id /\ k.userId = reqUser' ) =>
       res' = TaskNotFound]_vars

C19_Witness ==
  /\ Served
  /\ ByIdRequest(req, ran)
  /\ req.route = "getTaskById"
  /\ \E k \in tasks : k.id = req.body.id /\ k.userId # reqUser
  /\ res = TaskNotFound
  /\ res = serve("getTaskById", req.header, [id |-> nextTaskId],
                 users, tasks, nextTaskId, now).res

\* the tasks of the listing of a response
Listed(rq, rs) ==
  IF Has(rq.body, "page") /\ Has(rq.body, "limit") THEN rs.body.data ELSE rs.body

\* the tasks of the caller that satisfy the filters of a query
Wanted(rq, uid, ts) ==
  {k \in ts : /\ k.userId = uid
              /\ Has(rq.body, "status") => k.status = rq.body.status
              /\ Has(rq.body, "search") => textMatch(k, trim(rq.body.search))}

\* C20: a list holds only tasks of the caller that have the requested
\* status and match the search text in title or description; without
\* paging it holds every such task, once; it is ordered newest first by
\* creation time
C20_ListIsFilteredAndOrdered ==
  (Served /\ req.route = "getTasks" /\ res.status = OK) =>
     LET list == Listed(req, res)
         wanted == Wanted(req, reqUser, tasks)
     IN /\ Range(list) \subseteq wanted
        /\ ~Has(req.body, "page") =>
              (Range(list) = wanted /\ Len(list) = Cardinality(wanted))
        /\ \A i, j \in 1..Len(list) : i < j => list[i].createdAt >= list[j].createdAt

C20_Witness ==
  /\ Served
  /\ req.route = "getTasks"
  /\ res.status = OK
  /\ Has(req.body, "search") /\ ~Has(req.body, "status") /\ ~Has(req.body, "page")
  /\ Len(res.body) = 2
  /\ res.body[1].createdAt > res.body[2].createdAt
  /\ res.body[1].title # res.body[2].title

\* the smaller and the larger of two integers
Min(a, b) == IF a < b THEN a ELSE b

Max(a, b) == IF a > b THEN a ELSE b

\* a served list request that asked for a page
PagedList ==
  /\ Served
  /\ req.route = "getTasks"
  /\ res.status = OK
  /\ Has(req.body, "page") /\ Has(req.body, "limit")

\* C21: a list request with page p >= 1 and limit l >= 1 for a caller with
\* T matching tasks is answered with min(l, max(0, T - (p-1)*l)) items,
\* currentPage = p, itemsPerPage = l, totalItems = T, totalPages = the
\* least n with n*l >= T, hasNextPage = (p < totalPages) and
\* hasPrevPage = (p > 1)
C21_PaginationArithmetic ==
  PagedList =>
     LET T == Cardinality(Wanted(req, reqUser, tasks))
         p == req.body.page
         l == req.body.limit
         pg == res.body.pagination
     IN /\ Len(res.body.data) = Min(l, Max(0, T - (p - 1) * l))
        /\ pg.currentPage = p
        /\ pg.itemsPerPage = l
        /\ pg.totalItems = T
        /\ pg.totalPages * l >= T
        /\ (pg.totalPages - 1) * l < T
        /\ pg.totalPages >= 0
        /\ pg.hasNextPage = (p < pg.totalPages)
        /\ pg.hasPrevPage = (p > 1)

\* the second of two pages of one task each
C21_Witness ==
  /\ PagedList
  /\ req.body.page = 2 /\ req.body.limit = 1
  /\ Len(res.body.data) = 1
  /\ res.body.pagination.totalItems = 2
  /\ res.body.pagination.totalPages = 2
  /\ res.body.pagination.hasPrevPage
  /\ ~res.body.pagination.hasNextPage

\* the messages of the signup rules that a payload violates, rule by rule
SignupViolations(b) ==
  LET e == Field(b, "email")
      u == trim(Field(b, "username"))
      p == Field(b, "password")
  IN {m \in {"Please provide a valid email address",
             "Username must be between 3 and 30 characters",
             "Username can only contain letters, numbers, underscores, and hyphens",
             "Password must be at least 8 characters long",
             "Password must contain at least one uppercase letter",
             "Password must contain at least one lowercase letter",
             "Password must contain at least one number",
             "Password must contain at least one special character",
             "Passwords do not match"} :
        \/ m = "Please provide a valid email address" /\ ~isEmail(e)
        \/ m = "Username must be between 3 and 30 characters"
              /\ (Len(u) < 3 \/ Len(u) > 30)
        \/ m = "Username can only contain letters, numbers, underscores, and hyphens"
              /\ ~matchesUsernamePattern(u)
        \/ m = "Password must be at least 8 characters long" /\ Len(p) < 8
        \/ m = "Password must contain at least one uppercase letter"
              /\ ~\E i \in 1..Len(p) : p[i] \in UpperChars
        \/ m = "Password must contain at least one lowercase letter"
              /\ ~\E i \in 1..Len(p) : p[i] \in LowerChars
        \/ m = "Password must contain at least one number"
              /\ ~\E i \in 1..Len(p) : p[i] \in DigitChars
        \/ m = "Password must contain at least one special character"
              /\ ~\E i \in 1..Len(p) : p[i] \in SpecialChars
        \/ m = "Passwords do not match" /\ Field(b, "confirmPassword") # p}

\* C22: a validation failure reports every violated rule, not the first
\* alone: a signup is answered 422 exactly when its payload violates a
\* rule, and the error list of the 422 holds one entry for each violated
\* rule, whose messages are the message list of the response
C22_EveryViolatedRuleListed ==
  (Served /\ req.route = "signup") =>
     LET violated == SignupViolations(req.body)
     IN IF violated = {}
        THEN res.status # UNPROCESSABLE_ENTITY
        ELSE /\ res.status = UNPROCESSABLE_ENTITY
             /\ {e.msg : e \in Range(res.body.errors)} = violated
             /\ Len(res.body.errors) = Cardinality(violated)
             /\ Len(res.body.message) = Len(res.body.errors)
             /\ \A i \in 1..Len(res.body.errors) :
                   res.body.message[i] = res.body.errors[i].msg

\* the password 'password' misses an uppercase letter, a digit and a
\* special character, and all three are listed together
C22_Witness ==
  /\ Served
  /\ req.route = "signup"
  /\ req.body.password = P_WEAK
  /\ res.status = UNPROCESSABLE_ENTITY
  /\ \E i, j, k \in 1..Len(res.body.errors) :
        /\ i < j /\ j < k
        /\ res.body.errors[i].msg = "Password must contain at least one uppercase letter"
        /\ res.body.errors[j].msg = "Password must contain at least one number"
        /\ res.body.errors[k].msg = "Password must contain at least one special character"
        /\ res.body.errors[i].path = "password"

\* a request during which an error was thrown that is no validation,
\* duplicate-key or cast error
ThrownUnexpected ==
  /\ Served
  /\ Has(req, "thrown")
  /\ req.thrown.name \notin {"ValidationError", "CastError"}
  /\ req.thrown.code # DUPLICATE_KEY

\* C23: an exception raised in a request path that is no validation,
\* duplicate-key or cast error is answered 500 with the generic message,
\* which carries nothing of the exception's own message, and the answer
\* holds a stack trace only when the process does not run in production
C23_UnexpectedErrorIsGeneric500 ==
  ThrownUnexpected =>
     /\ res.status = INTERNAL_SERVER_ERROR
     /\ res.body.message = "Internal server error"
     /\ res.body.message # req.thrown.message
     /\ Has(res.body, "stack") => nodeEnv # "production"

\* the token of a header verifies at time t and names a user of the store
TokenResolves(header, us, t) ==
  /\ Len(header) >= 2
  /\ header[2].jwt
  /\ header[2].key = JWT_SECRET
  /\ t < header[2].exp
  /\ header[2].id \in UserIds(us)

\* C24: the optional gate never rejects: for every request it sends no
\* response and calls the next handler exactly once; it attaches an
\* identity only when the token verifies and resolves to an existing user,
\* which is the identity attached, and attaches none when the header is
\* missing, the token is malformed or expired, or the user is unknown
C24_OptionalAuthNeverRejects ==
  (Served /\ req.route = "optionalAuth") =>
     /\ res = Unsent
     /\ ran = <<"optionalAuth", "next">>
     /\ reqUser # 0 =>
           (TokenResolves(req.header, users, now) /\ reqUser = req.header[2].id)
     /\ ~TokenResolves(req.header, users, now) => reqUser = 0

\* an expired token of an existing user passes without an identity
C24_Witness ==
  /\ Served
  /\ req.route = "optionalAuth"
  /\ Len(req.header) = 2
  /\ req.header[1] = Bearer
  /\ req.header[2].key = JWT_SECRET
  /\ req.header[2].id \in UserIds(users)
  /\ now >= req.header[2].exp
  /\ reqUser = 0
  /\ ran = <<"optionalAuth", "next">>

\* C25: whatever termination signals arrive, the close of the store
\* connection begins only after the HTTP server has stopped accepting
\* connections and every request in flight has completed; a forced exit
\* ends the process without closing the store connection
C25_StoreClosedAfterServer ==
  store # "open" => (server = "closed" /\ connections = 0)

\* the store was closed after two signals, the second one arriving while a
\* request was still in flight
C25_Witness ==
  /\ signals = 2
  /\ store = "closed"
  /\ server = "closed"
  /\ exitCode = 0

\* C26: after a termination signal the process eventually exits; it exits
\* with 0 only once the server and the store connection have both closed,
\* and with 1 only when closing the store failed or a force timer fired
C26_ShutdownTerminates ==
  /\ (signals > 0) ~> (exitCode \in {0, 1})
  /\ [](exitCode = 0 => (server = "closed" /\ store = "closed"))
  /\ [](exitCode = 1 => exitBy \in {"closeError", "timeout"})
  /\ [](exitCode \in {-1, 0, 1})

\* the force timer ended a process whose request in flight did not complete
C26_Witness ==
  /\ signals > 0
  /\ connections > 0
  /\ server = "closing"
  /\ exitCode = 1
  /\ exitBy = "timeout"

\* the response of a delete that removed the task
Deleted == sendSuccess(OK, [success |-> TRUE, message |-> "Task deleted successfully"])

\* a task with id i is in the collection ts
Stored(i, ts) == \E k \in ts : k.id = i

\* C27: a delete wins over an update in flight: when an update has read a
\* task and the task is deleted before the update saves, the save does not
\* bring the task back and the update is answered with an error, not with
\* a task; a task that is gone stays gone in every later state
C27_DeleteWinsOverUpdate ==
  [][ /\ \A i \in 1..(nextTaskId - 1) : ~Stored(i, tasks) => ~Stored(i, tasks')
      /\ \A p \in inflight, q \in inflight' :
            ( /\ p.slot = q.slot
              /\ p.route = "updateTask" /\ p.stage = "read" /\ q.stage = "answered"
              /\ ~Stored(p.body.id, tasks) ) =>
            ( /\ q.res.status >= BAD_REQUEST
              /\ q.res.body.success = FALSE
              /\ ~Stored(p.body.id, tasks') ) ]_vars

\* an update that had read the task is answered with an error next to the
\* delete that removed the task in between
C27_Witness ==
  \E u, d \in inflight :
     /\ u.route = "updateTask" /\ u.stage = "answered" /\ u.read # {}
     /\ d.route = "deleteTask" /\ d.stage = "answered" /\ d.res = Deleted
     /\ d.body.id = u.body.id
     /\ u.res.status = INTERNAL_SERVER_ERROR
     /\ ~Stored(u.body.id, tasks)

\* the deletes of task i in flight or answered that arrived while the task
\* was in the store
DeletesOf(i) ==
  {p \in inflight : p.route = "deleteTask" /\ p.body.id = i /\ p.seen}

\* C28: of the overlapping delete requests of the owner for one task,
\* exactly one is answered 200 with the confirmation and every other one
\* is answered 404 'Task not found'
C28_OneDeleteSucceeds ==
  \A i \in 1..(nextTaskId - 1) :
     (DeletesOf(i) # {} /\ \A p \in DeletesOf(i) : p.stage = "answered") =>
        \E w \in DeletesOf(i) :
           /\ w.res = Deleted
           /\ \A o \in DeletesOf(i) \ {w} : o.res = TaskNotFound

\* two deletes of the same task overlapped: one removed it, one found nothing
C28_Witness ==
  \E w, o \in inflight :
     /\ w.slot # o.slot
     /\ w.route = "deleteTask"
     /\ w \in DeletesOf(w.body.id) /\ o \in DeletesOf(w.body.id)
     /\ w.stage = "answered" /\ o.stage = "answered"
     /\ w.res = Deleted
     /\ o.res = TaskNotFound

\* C29: a paged list response is consistent in itself also when creations
\* and deletions of the same user run between its two reads: data holds at
\* most totalItems tasks, and data is not empty when currentPage is at most
\* totalPages
C29_PagedResponseConsistent ==
  \A p \in inflight :
     (p.route = "getTasks" /\ p.stage = "answered") =>
        /\ Len(p.res.body.data) <= p.res.body.pagination.totalItems
        /\ p.res.body.pagination.currentPage <= p.res.body.pagination.totalPages
              => p.res.body.data # <<>>

\* C30: in every state of the AuthProvider, whatever the interleaving of
\* login, signup, logout and a refreshUser in flight, a user that is not
\* null (isAuthenticated) implies that localStorage holds an auth token
C30_UserImpliesToken ==
  clientUser # NoUser => authToken # NoToken

====
